---- MODULE Spec2Model ----
(***************************************************************************)
(* A model of the cognitive-agent runtime: the EventBus dispatcher          *)
(* (src/src/core/event_bus.py), the CognitiveCore state machine             *)
(* (src/src/core/cognitive_core.py), the ReasoningEngine                    *)
(* (src/src/modules/reasoning_engine.py), the MemoryModule                  *)
(* (src/src/modules/memory_module.py) and the SynapseBridge                 *)
(* (src/src/multimodal/synapse_bridge.py).                                  *)
(*                                                                          *)
(* Every asyncio task is a process with a program counter.  A step of the   *)
(* model runs a task from one suspension point (an await that can yield to  *)
(* the event loop) to the next; synchronous methods (subscribe,             *)
(* unsubscribe, stop) are single steps.                                     *)
(*                                                                          *)
(* The specifications share the variables:                                  *)
(*   SpecBus       the EventBus alone, with abstract handlers;              *)
(*   SpecQueue     the EventBus under events published while it is off;     *)
(*   SpecSynapse   the SynapseBridge on a bus of its own;                   *)
(*   SpecCore      the CognitiveCore on a bus whose only listeners are the  *)
(*                 core's own _on_perception subscriptions;                 *)
(*   SpecRun       SpecCore with cancellation of the run() task;            *)
(*   SpecCoreLog   the core's perception log under direct perceive calls;   *)
(*   SpecCompact   the same, with run() created when the log is nearly full;*)
(*   SpecPerceive  perceive() called directly and by the bus;               *)
(*   SpecEngine    the ReasoningEngine alone;                               *)
(*   SpecReason    the counters and the history that reason() keeps;        *)
(*   SpecHistory   the same, with a history that fills;                     *)
(*   SpecMemory    the MemoryModule alone;                                  *)
(*   SpecDisk      the MemoryModule and its memory file;                    *)
(*   SpecTasks     the MemoryModule under store calls of several tasks.     *)
(***************************************************************************)
EXTENDS Integers, Sequences, FiniteSets, TLC

(***************************************************************************)
(* Bounds of the model.                                                     *)
(***************************************************************************)
\* events published from outside in one behaviour (SpecBus: emit calls; SpecCore:
\* sensor events)
MaxEmit == 2
\* handlers held by one type's listener list
MaxSubs == 2
\* subscribe and unsubscribe calls in one behaviour of SpecBus
MaxSubCalls == 3
\* events waiting in the queue while the CognitiveCore publishes (SpecCore, SpecCoreLog)
MaxQueue == 3
\* direct perceive() calls in one behaviour of SpecCoreLog
MaxPerceive == 102
\* add_rule calls in one behaviour of SpecEngine
MaxAdd == 3
\* store() calls in one behaviour of SpecMemory
MaxStore == 11
\* store() calls in one behaviour of SpecDisk
MaxDiskStore == 3
\* store() calls in one behaviour of SpecTasks
MaxTaskStore == 11
\* reason() calls in one behaviour of SpecReason
MaxReason == 3
\* reason() calls in one behaviour of SpecHistory
MaxHistoryCalls == 1002
\* forget() and clear() calls in one behaviour of SpecMemory
MaxMaintain == 1

(***************************************************************************)
(* Constants of the program.                                                *)
(***************************************************************************)
\* cognitive_cycle: the log is cut once it holds more than this many perceptions
PerceptionLimit == 100
\* cognitive_cycle: the number of perceptions a cut keeps
PerceptionKeep == 50
\* the weight 1.0 (weights are counted in thousandths)
WeightOne == 1000
\* adapt: the bounds 0.1 and 2.0 of a weight
WeightMin == 100
WeightMax == 2000
\* adapt: the score 0.5 that leaves a weight alone (scores are counted in tenths)
ScoreMid == 5
\* store: persist when the length of the short-term buffer is a multiple of 10
PersistEvery == 10
\* recall: the default limit
RecallLimit == 10
\* MemoryModule: the default max_short_term
DefaultCapacity == 100
\* reason: the history is cut once it holds more than this many records
HistoryLimit == 1000
\* reason: the number of records a cut keeps
HistoryKeep == 500
\* _sync_context: the history is cut once it holds more than this many records
SyncLimit == 1000
\* _sync_context: the number of records a cut keeps
SyncKeep == 500

(***************************************************************************)
(* The EventBus's universe in SpecBus: event types, and handlers as the bus *)
(* sees them: a callback either returns or raises.                          *)
(***************************************************************************)
Types == {"ping", "pong"}
Handlers == {"h1", "hx"}
Raises(h) == h = "hx"

VARIABLES
    listeners,      \* EventBus._listeners: type -> list of callbacks (a dict, with keys DOMAIN listeners)
    event_queue,    \* EventBus._event_queue
    bus_running,    \* EventBus._running
    bus_pc,         \* where the task running EventBus.start() is
    cur,            \* the event _dispatch is handling
    idx,            \* the index of _dispatch's list iterator
    callback,       \* the callback _dispatch is calling
    live,           \* _dispatch iterates the dict's own list (the key existed), not the default []
    published,      \* history: the types of the events emitted from outside, in order (event k has payload k)
    delivered,      \* history: the handler invocations that completed (SpecBus)
    stable,         \* history: no subscribe/unsubscribe since the first publish
    touched,        \* history: handlers (un)subscribed on cur's type while cur is being dispatched
    sub_calls,      \* history: the number of subscribe and unsubscribe calls made
    core_state,     \* CognitiveCore._state
    core_running,   \* CognitiveCore._running
    perceptions,    \* CognitiveCore._perceptions; a perception is its timestamp
    clock,          \* the timestamp of the latest perception
    run_pc,         \* where the task running CognitiveCore.run() is
    acting,         \* the decision act() is handling while it waits in memory.store
    handler_wait,   \* the perception whose perceive(), called by _on_perception, waits in memory.store
    direct_wait,    \* the perception whose perceive(), called directly, waits in memory.store
    rules,          \* ReasoningEngine._rules
    adaptive_weights, \* ReasoningEngine._adaptive_weights
    stop_requested, \* history: stop() was called since the run() task was created
    cycle,          \* history: what the latest cognitive_cycle decided, published and stored
    perceived,      \* history: the memory.store calls and the events of all perceive() calls
    run_hist,       \* history: the events the latest run() task has published
    added,          \* the number of Rule objects created by add_rule; a rule's id is its number
    reasoned,       \* history: the latest reason() call on the engine as it is now
    execution_count, \* Rule.execution_count, by the rule's id
    reasoning_history, \* ReasoningEngine._reasoning_history
    reasons,        \* the number of reason() calls that keep the history; a record's timestamp
    conds,          \* history: what the rules' conditions did in the latest of these calls
    max_short_term, \* MemoryModule.max_short_term: the maxlen of the deque
    short_term,     \* MemoryModule._short_term
    long_term,      \* MemoryModule._long_term: type -> list of entries
    index_by_type,  \* MemoryModule._index_by_type: type -> list of positions
    disk,           \* the memory file
    saved,          \* history: the memory persist() was called on, while the memory stays as it was
    fresh,          \* a second MemoryModule, just constructed on the same memory file
    store_pc,       \* where each task that calls store() is
    writing,        \* what the executor thread running _save for a task has written of the long-term map
    clobbered,      \* another thread had the memory file open while the task's thread wrote it
    stores,         \* history: the number of store() calls since construction
    cleared_at,     \* history: the number of store() calls before the latest clear()
    persisted,      \* history: whether the latest store() call called persist()
    last,           \* history: the entry of the latest store() call, until forget() or clear()
    forgot,         \* history: the latest call, when it is a forget() call, and what it returned
    maintained,     \* history: the number of forget() and clear() calls
    context_window, \* SynapseBridge.context_window
    shared_context, \* SynapseBridge.shared_context: modality -> deque; no key without a bridge
    sync_history    \* SynapseBridge._sync_history

busVars == <<listeners, event_queue, bus_running, bus_pc, cur, idx, callback, live,
             published, delivered, stable, touched, sub_calls>>

coreVars == <<core_state, core_running, perceptions, clock, run_pc, acting, handler_wait,
              direct_wait, rules, adaptive_weights, stop_requested, cycle, perceived,
              run_hist>>

engineVars == <<added, reasoned, execution_count, reasoning_history, reasons, conds>>

memoryVars == <<max_short_term, short_term, long_term, index_by_type, disk, saved, fresh,
                store_pc, writing, clobbered,
                stores, cleared_at, persisted, last, forgot, maintained>>

bridgeVars == <<context_window, shared_context, sync_history>>

\* the variables beside the bus and the core
sideVars == <<engineVars, memoryVars, bridgeVars>>

vars == <<busVars, coreVars, engineVars, memoryVars, bridgeVars>>

\* no SynapseBridge is constructed
NoBridge ==
    /\ context_window = 0
    /\ shared_context = <<>>
    /\ sync_history = <<>>

NoEvent == [type |-> "none", data |-> 0]

\* Event(type=..., data=...)
Event(t, d) == [type |-> t, data |-> d]

\* dict.get(key, default)
Get(d, k, default) == IF k \in DOMAIN d THEN d[k] ELSE default

\* the position of the first x in s, 0 when there is none
IndexOf(s, x) ==
    IF \E i \in 1..Len(s) : s[i] = x
    THEN CHOOSE i \in 1..Len(s) : s[i] = x /\ \A j \in 1..(i - 1) : s[j] # x
    ELSE 0

\* s without its i-th element
RemoveAt(s, i) == SubSeq(s, 1, i - 1) \o SubSeq(s, i + 1, Len(s))

\* list.remove(x) for an x the list holds: the first occurrence goes
ListRemove(s, x) == RemoveAt(s, IndexOf(s, x))

\* (mutant) a queue that hands out its newest item
QueuePopNewest(q) == [item |-> q[Len(q)], rest |-> SubSeq(q, 1, Len(q) - 1)]

\* asyncio.Queue.get on a non-empty queue: the oldest item
QueuePop(q) == [item |-> Head(q), rest |-> Tail(q)]

(***************************************************************************)
(* EventBus.  Each action states what it does to the bus; the               *)
(* specifications add what stays unchanged beside it.                       *)
(***************************************************************************)
InitBusWith(L) ==
    /\ listeners = L
    /\ event_queue = <<>>
    /\ bus_running = FALSE
    /\ bus_pc = "idle"
    /\ cur = NoEvent
    /\ idx = 0
    /\ callback = "none"
    /\ live = FALSE
    /\ published = <<>>
    /\ delivered = <<>>
    /\ stable = TRUE
    /\ touched = {}
    /\ sub_calls = 0

\* the list _dispatch iterates: the dict's own list object, or the default []
CurList == IF live /\ cur.type \in DOMAIN listeners THEN listeners[cur.type] ELSE <<>>

Dispatching == bus_pc \in {"dispatch", "handler"}

\* subscribe(event_type, callback): defaultdict creates the list, append
Subscribe(t, h) ==
    /\ Len(Get(listeners, t, <<>>)) < MaxSubs
    /\ sub_calls < MaxSubCalls
    /\ listeners' = [k \in DOMAIN listeners \cup {t} |->
                        IF k = t THEN Append(Get(listeners, t, <<>>), h) ELSE listeners[k]]
    /\ stable' = (stable /\ published = <<>>)
    /\ touched' = IF Dispatching /\ cur.type = t THEN touched \cup {h} ELSE touched
    /\ sub_calls' = sub_calls + 1
    /\ UNCHANGED <<event_queue, bus_running, bus_pc, cur, idx, callback, live, published,
                   delivered>>

\* unsubscribe(event_type, callback): list.remove under a key test only; what it
\* leaves in _listeners, and whether it raised (ValueError)
UnsubscribeResult(L, t, h) ==
    IF t \notin DOMAIN L THEN [listeners |-> L, raised |-> FALSE]
    ELSE IF IndexOf(L[t], h) = 0 THEN [listeners |-> L, raised |-> TRUE]
    ELSE [listeners |-> [L EXCEPT ![t] = ListRemove(L[t], h)], raised |-> FALSE]

Unsubscribe(t, h) ==
    /\ sub_calls < MaxSubCalls
    /\ listeners' = UnsubscribeResult(listeners, t, h).listeners
    /\ stable' = (stable /\ published = <<>>)
    /\ touched' = IF Dispatching /\ cur.type = t THEN touched \cup {h} ELSE touched
    /\ sub_calls' = sub_calls + 1
    /\ UNCHANGED <<event_queue, bus_running, bus_pc, cur, idx, callback, live, published,
                   delivered>>

\* (mutant) a publish that drops the event when the dispatch loop is not running
QueuePutRunning(q, e) == IF bus_running THEN Append(q, e) ELSE q

\* publish's queue.put on the unbounded queue, whatever the state of the bus
QueuePut(q, e) == Append(q, e)

\* emit(event_type, data): build the Event, publish: queue.put
Emit(t) ==
    /\ Len(published) < MaxEmit
    /\ event_queue' = QueuePut(event_queue, Event(t, Len(published) + 1))
    /\ published' = Append(published, t)
    /\ UNCHANGED <<listeners, bus_running, bus_pc, cur, idx, callback, live, delivered,
                   stable, touched, sub_calls>>

\* start(), to its first suspension: _running = True, the while test, wait_for(get)
BusStart ==
    /\ bus_pc \in {"idle", "done"}
    /\ bus_running' = TRUE
    /\ bus_pc' = "get"
    /\ UNCHANGED <<listeners, event_queue, cur, idx, callback, live, published, delivered,
                   stable, touched, sub_calls>>

\* wait_for(queue.get()) returns an event; _dispatch reads the listener list
BusGet ==
    /\ bus_pc = "get"
    /\ event_queue # <<>>
    /\ cur' = QueuePop(event_queue).item
    /\ event_queue' = QueuePop(event_queue).rest
    /\ live' = (QueuePop(event_queue).item.type \in DOMAIN listeners)
    /\ idx' = 0
    /\ touched' = {}
    /\ bus_pc' = "dispatch"
    /\ UNCHANGED <<listeners, bus_running, callback, published, delivered, stable, sub_calls>>

\* (mutant) a while test that never reads _running
LoopTestForever == "get"

\* the while test of start()
LoopTest == IF bus_running THEN "get" ELSE "done"

\* wait_for times out on an empty queue: continue, the while test
BusTimeout ==
    /\ bus_pc = "get"
    /\ event_queue = <<>>
    /\ bus_pc' = LoopTest
    /\ UNCHANGED <<listeners, event_queue, bus_running, cur, idx, callback, live, published,
                   delivered, stable, touched, sub_calls>>

\* the for loop of _dispatch fetches the next callback (the list iterator advances)
\* and calls it
InvokeHandler ==
    /\ bus_pc = "dispatch"
    /\ idx < Len(CurList)
    /\ callback' = CurList[idx + 1]
    /\ idx' = idx + 1
    /\ bus_pc' = "handler"
    /\ UNCHANGED <<listeners, event_queue, bus_running, cur, live, published,
                   delivered, stable, touched, sub_calls>>

\* (mutant) the exception leaves _dispatch and is caught in start(): the rest of the
\* listeners are skipped
AfterRaiseAbort == "get"

\* what _dispatch does when the callback has raised: caught and printed, the loop goes on
AfterRaise == "dispatch"

\* the callback returns or raises
HandlerDone ==
    /\ bus_pc = "handler"
    /\ delivered' = Append(delivered,
           [type |-> cur.type, ev |-> cur.data, slot |-> idx, h |-> callback,
            ok |-> ~Raises(callback)])
    /\ bus_pc' = IF Raises(callback) THEN AfterRaise ELSE "dispatch"
    /\ callback' = "none"
    /\ UNCHANGED <<listeners, event_queue, bus_running, cur, idx, live, published, stable,
                   touched, sub_calls>>

\* the for loop of _dispatch ends; back in start(), the while test
DispatchEnd ==
    /\ bus_pc = "dispatch"
    /\ idx >= Len(CurList)
    /\ bus_pc' = LoopTest
    /\ cur' = NoEvent
    /\ idx' = 0
    /\ live' = FALSE
    /\ touched' = {}
    /\ UNCHANGED <<listeners, event_queue, bus_running, callback, published, delivered,
                   stable, sub_calls>>

\* stop()
BusStop ==
    /\ bus_running' = FALSE
    /\ UNCHANGED <<listeners, event_queue, bus_pc, cur, idx, callback, live, published,
                   delivered, stable, touched, sub_calls>>

(***************************************************************************)
(* ReasoningEngine, as far as CognitiveCore.think calls it.  A rule's       *)
(* callables are opaque: which conditions hold is an input of each reason() *)
(* call (the set S of positions in the rule list), and a rule's action      *)
(* either returns its decision or raises (act = "raise").  The counters of   *)
(* the rules and the history of the engine are followed through the calls   *)
(* of ReasonRun (SpecReason, SpecHistory); the specifications of the core   *)
(* and SpecEngine look at the decisions of reason() alone.                  *)
(***************************************************************************)
\* what a Python None stands for where a decision is expected
NoneDecision == [action |-> "None", confidence |-> 0]
IsNone(d) == d.action = "None"

\* the rules at the positions S, in list order: applicable_rules
Applicable(rs, S) ==
    LET F[i \in 0..Len(rs)] ==
            IF i = 0 THEN <<>>
            ELSE IF i \in S THEN Append(F[i - 1], rs[i]) ELSE F[i - 1]
    IN F[Len(rs)]

\* (mutant) a key that is the priority alone
ScoreUnweighted(r, w) == r.priority

\* the key of max(): priority * weight, the weight 1.0 for a name without one
Score(r, w) == r.priority * Get(w, r.name, WeightOne)

\* max(applicable_rules, key=...): the first of the rules with the greatest key
BestRule(app, w) ==
    app[CHOOSE i \in 1..Len(app) :
            /\ \A j \in 1..Len(app) : Score(app[j], w) <= Score(app[i], w)
            /\ \A j \in 1..(i - 1) : Score(app[j], w) < Score(app[i], w)]

\* Rule.execute: the action's result, None when the action raises
Execute(r) ==
    IF r.act = "raise" THEN NoneDecision
    ELSE [action |-> r.act, confidence |-> r.confidence]

\* (mutant) a default that takes ten perceptions for many
DefaultReasoningFromTen(n) ==
    IF n >= 10 THEN [action |-> "process", confidence |-> 6]
    ELSE IF n > 0 THEN [action |-> "observe", confidence |-> 5]
    ELSE [action |-> "wait", confidence |-> 4]

\* _default_reasoning, on the number of perceptions (confidence in tenths)
DefaultReasoning(n) ==
    IF n > 10 THEN [action |-> "process", confidence |-> 6]
    ELSE IF n > 0 THEN [action |-> "observe", confidence |-> 5]
    ELSE [action |-> "wait", confidence |-> 4]

\* reason(perceptions, context), the conditions at S holding
Reason(rs, w, n, S) ==
    IF Applicable(rs, S) = <<>> THEN DefaultReasoning(n)
    ELSE Execute(BestRule(Applicable(rs, S), w))

\* no reason() call on the engine as it is now
NoReason == [called |-> FALSE, S |-> {}, n |-> 0, decision |-> NoneDecision]

\* (mutant) an insertion that puts the new rule before the rules of its priority
InsertFirst(rs, r) ==
    LET k == Cardinality({i \in 1..Len(rs) : rs[i].priority > r.priority})
    IN SubSeq(rs, 1, k) \o <<r>> \o SubSeq(rs, k + 1, Len(rs))

\* list.sort(key=priority, reverse=True) after append(r) to a sorted list: the sort
\* is stable, so r comes after every rule whose priority is not smaller
Insert(rs, r) ==
    LET k == Cardinality({i \in 1..Len(rs) : rs[i].priority >= r.priority})
    IN SubSeq(rs, 1, k) \o <<r>> \o SubSeq(rs, k + 1, Len(rs))

\* f without the key k
DictDel(f, k) == [x \in DOMAIN f \ {k} |-> f[x]]

\* f with the key k set to v
DictSet(f, k, v) == [x \in DOMAIN f \cup {k} |-> IF x = k THEN v ELSE f[x]]

\* add_rule(name, condition, action, priority): a new Rule, appended, the list sorted,
\* the name's weight set to 1.0; the rule's action decides "do_<name>"
AddRule(name, priority) ==
    /\ added < MaxAdd
    /\ rules' = Insert(rules, [id |-> added + 1, name |-> name, priority |-> priority,
                               act |-> "do_" \o name, confidence |-> 9])
    /\ adaptive_weights' = DictSet(adaptive_weights, name, WeightOne)
    /\ added' = added + 1
    /\ execution_count' = DictSet(execution_count, added + 1, 0)
    /\ reasoned' = NoReason
    /\ UNCHANGED <<reasoning_history, reasons, conds>>

\* the position of the first rule called name, 0 when there is none
FirstNamed(rs, name) ==
    IF \E i \in 1..Len(rs) : rs[i].name = name
    THEN CHOOSE i \in 1..Len(rs) : rs[i].name = name /\ \A j \in 1..(i - 1) : rs[j].name # name
    ELSE 0

\* remove_rule(name): the first rule of that name is popped, the name's weight deleted
RemoveRule(name) ==
    /\ IF FirstNamed(rules, name) = 0
       THEN UNCHANGED <<rules, adaptive_weights, execution_count>>
       ELSE /\ rules' = RemoveAt(rules, FirstNamed(rules, name))
            /\ adaptive_weights' = DictDel(adaptive_weights, name)
            /\ execution_count' = DictDel(execution_count, rules[FirstNamed(rules, name)].id)
    /\ reasoned' = NoReason
    /\ UNCHANGED <<added, reasoning_history, reasons, conds>>

\* (mutant) an adjustment that is not clamped
ClampNone(w) == w

\* max(0.1, min(2.0, w))
Clamp(w) ==
    IF w < WeightMin THEN WeightMin ELSE IF w > WeightMax THEN WeightMax ELSE w

\* (mutant) an adjustment of the opposite sign
AdjustmentReversed(score) == (ScoreMid - score) * 10

\* (performance_score - 0.5) * 0.1, the score in tenths, the result in thousandths
Adjustment(score) == (score - ScoreMid) * 10

\* the weight adapt() leaves for a rule of weight w
Adapted(w, score) == Clamp(w + Adjustment(score))

\* adapt(rule_name, performance_score): nothing for a name without a weight
Adapt(name, score) ==
    /\ adaptive_weights' =
           IF name \in DOMAIN adaptive_weights
           THEN [adaptive_weights EXCEPT ![name] = Adapted(@, score)]
           ELSE adaptive_weights
    /\ reasoned' = NoReason
    /\ UNCHANGED <<rules, added, execution_count, reasoning_history, reasons, conds>>

\* reason(perceptions, context), as far as its decision goes: n perceptions, the
\* conditions of the rules at S hold
ReasonCall(n, S) ==
    /\ reasoned' = [called |-> TRUE, S |-> S, n |-> n,
                    decision |-> Reason(rules, adaptive_weights, n, S)]
    /\ UNCHANGED <<rules, adaptive_weights, added, execution_count, reasoning_history,
                   reasons, conds>>

\* what a rule's condition does in a call: it returns True or False, or it raises
Outcomes == {"true", "false", "raise"}

\* (mutant) an evaluation that takes a condition that raises for one that holds
EvaluateRaiseHolds(o) == o # "false"

\* Rule.evaluate: the condition's result, False when the condition raises
Evaluate(o) == o = "true"

\* (mutant) a counter of the calls of execute
ExecutedAlways(ec, r) == [ec EXCEPT ![r.id] = @ + 1]

\* Rule.execute's counter: incremented after the action, so not when the action raises
Executed(ec, r) == IF r.act = "raise" THEN ec ELSE [ec EXCEPT ![r.id] = @ + 1]

\* (mutant) a history that keeps its oldest records
TruncateOldest(h) ==
    IF Len(h) > HistoryLimit THEN SubSeq(h, 1, HistoryKeep) ELSE h

\* reason's limit on the history: self._reasoning_history[-500:] once it holds more
\* than 1000 records
Truncate(h) ==
    IF Len(h) > HistoryLimit THEN SubSeq(h, Len(h) - HistoryKeep + 1, Len(h)) ELSE h

\* [r.name for r in applicable_rules]
Names(app) == [i \in 1..Len(app) |-> app[i].name]

\* reason(perceptions, context), whole: n perceptions, cond[i] is what the condition of
\* the i-th rule does; the k-th call's record has the timestamp k
ReasonRun(n, cond) ==
    LET S == {i \in 1..Len(rules) : Evaluate(cond[i])}
        app == Applicable(rules, S)
        best == BestRule(app, adaptive_weights)
    IN /\ reasoned' = [called |-> TRUE, S |-> S, n |-> n,
                       decision |-> Reason(rules, adaptive_weights, n, S)]
       /\ conds' = cond
       /\ reasons' = reasons + 1
       /\ IF app = <<>>
          THEN UNCHANGED <<execution_count, reasoning_history>>
          ELSE /\ execution_count' = Executed(execution_count, best)
               /\ reasoning_history' =
                      Truncate(Append(reasoning_history,
                                      [rule_used |-> best.name,
                                       applicable_rules |-> Names(app),
                                       decision |-> Execute(best),
                                       timestamp |-> reasons + 1]))
       /\ UNCHANGED <<rules, adaptive_weights, added>>

\* the engine the core is built with in SpecCore: three add_rule calls
CoreRules ==
    << [id |-> 1, name |-> "avoid", priority |-> 10, act |-> "move", confidence |-> 9],
       [id |-> 2, name |-> "watch", priority |-> 5, act |-> "observe", confidence |-> 5],
       [id |-> 3, name |-> "faulty", priority |-> 1, act |-> "raise", confidence |-> 0] >>

(***************************************************************************)
(* MemoryModule.  An entry is its type and its data; the data of the k-th   *)
(* store() call is k, and entries are stored in the order of their          *)
(* timestamps.  One caller uses the memory at a time.  Time is counted in   *)
(* days on a clock that never goes back: the k-th store() call is made on   *)
(* day k.  The data is held in a Python value of one of the shapes          *)
(*   "json"   the number k, which json.load gives back as json.dump got it; *)
(*   "tuple"  the tuple (k,), which json.dump writes as the list [k];       *)
(*   "set"    the set {k}, which json.dump cannot write;                    *)
(*   "list"   the list [k] (what a tuple is read back as).                  *)
(***************************************************************************)
MemoryEntry(t, k, shape) == [type |-> t, data |-> k, shape |-> shape]

NoEntry == MemoryEntry("none", 0, "json")

\* the memory file does not exist
NoFile == [state |-> "absent", long_term |-> <<>>, index |-> <<>>]

\* no persist() call on the memory as it is now
NoSave == [called |-> FALSE, long_term |-> <<>>, index |-> <<>>]

\* no second MemoryModule
NoFresh == [made |-> FALSE, long_term |-> <<>>, index |-> <<>>]

\* the tasks that call store() on one MemoryModule
Tasks == {"t1", "t2"}

\* no forget() call is the latest call
NoForget == [called |-> FALSE, type |-> "none", days |-> 0, count |-> 0]

\* entry["timestamp"], in days
Timestamp(e) == e.data

\* MemoryModule(memory_file, max_short_term) without a memory file to load
InitMemoryWith(capacity) ==
    /\ max_short_term = capacity
    /\ short_term = <<>>
    /\ long_term = <<>>
    /\ index_by_type = <<>>
    /\ disk = NoFile
    /\ saved = NoSave
    /\ fresh = NoFresh
    /\ store_pc = [task \in Tasks |-> "idle"]
    /\ writing = [task \in Tasks |-> <<>>]
    /\ clobbered = [task \in Tasks |-> FALSE]
    /\ stores = 0
    /\ cleared_at = 0
    /\ persisted = FALSE
    /\ last = NoEntry
    /\ forgot = NoForget
    /\ maintained = 0

\* (mutant) a buffer that turns a new entry away when it is full
DequeAppendKeepOld(q, e, maxlen) ==
    IF Len(q) >= maxlen THEN q ELSE Append(q, e)

\* deque(maxlen).append(e): a full deque drops its oldest entry
DequeAppend(q, e, maxlen) ==
    IF maxlen = 0 THEN <<>>
    ELSE IF Len(q) >= maxlen THEN Append(Tail(q), e)
    ELSE Append(q, e)

\* s[-n:] for n >= 0; s[-0:] is s[0:], the whole list
LastN(s, n) == IF n = 0 \/ Len(s) <= n THEN s ELSE SubSeq(s, Len(s) - n + 1, Len(s))

\* store's test for persist(), on the short-term buffer q after the k-th call
PersistTest(q, k) == Len(q) % PersistEvery = 0

\* json.dump can write the long-term map
Serialisable(lt) ==
    \A t \in DOMAIN lt : \A i \in 1..Len(lt[t]) : lt[t][i].shape # "set"

\* an entry as json.load reads what json.dump wrote of it: a tuple comes back a list
JsonValue(e) == IF e.shape = "tuple" THEN [e EXCEPT !.shape = "list"] ELSE e

\* the long-term map as json.load reads what json.dump wrote of it
JsonMap(lt) == [t \in DOMAIN lt |-> [i \in 1..Len(lt[t]) |-> JsonValue(lt[t][i])]]

\* _save: the file is opened for writing, which empties it, and json.dump writes
\* {long_term, index, last_saved}; a TypeError of json.dump is caught and leaves the
\* text written so far, which is not a JSON document
Save(lt, ix) ==
    IF Serialisable(lt)
    THEN [state |-> "json", long_term |-> JsonMap(lt), index |-> ix]
    ELSE [state |-> "broken", long_term |-> <<>>, index |-> <<>>]

\* (mutant) a load that takes the long-term map alone
LoadLongTermOnly(file) ==
    IF file.state = "json"
    THEN [long_term |-> file.long_term, index |-> <<>>]
    ELSE [long_term |-> <<>>, index |-> <<>>]

\* _load: nothing without a file; the two maps of the document; nothing when json.load
\* raises, which is caught
Load(file) ==
    IF file.state = "json"
    THEN [long_term |-> file.long_term, index |-> file.index]
    ELSE [long_term |-> <<>>, index |-> <<>>]

\* the memory persist() is called on
Snapshot(lt, ix) == [called |-> TRUE, long_term |-> lt, index |-> ix]

\* (mutant) an index that records the length of the list
IndexAppendLength(ix, t, n) == DictSet(ix, t, Append(Get(ix, t, <<>>), n))

\* store's update of the index: the position of the new entry in its list of n entries
IndexAppend(ix, t, n) == DictSet(ix, t, Append(Get(ix, t, <<>>), n - 1))

\* store(memory_type, data) up to its test for persist(), the data of the given shape:
\* the entry goes to the short-term buffer, the long-term list and the index, with no
\* await in between
StoreSync(t, shape) ==
    /\ LET e == MemoryEntry(t, stores + 1, shape)
           lt == DictSet(long_term, t, Append(Get(long_term, t, <<>>), e))
       IN /\ short_term' = DequeAppend(short_term, e, max_short_term)
          /\ long_term' = lt
          /\ index_by_type' = IndexAppend(index_by_type, t, Len(lt[t]))
          /\ persisted' = PersistTest(short_term', stores + 1)
          /\ last' = e
    /\ stores' = stores + 1
    /\ forgot' = NoForget
    /\ fresh' = NoFresh
    /\ UNCHANGED <<max_short_term, cleared_at, maintained>>

\* store(memory_type, data) by the one caller of the memory: persist(), when it is
\* called, is over before the caller's next call
Store(t, shape) ==
    /\ stores < MaxStore
    /\ StoreSync(t, shape)
    /\ disk' = IF persisted' THEN Save(long_term', index_by_type') ELSE disk
    /\ saved' = IF persisted' THEN Snapshot(long_term', index_by_type') ELSE NoSave
    /\ UNCHANGED <<store_pc, writing, clobbered>>

\* the file holds a part of a document
BrokenFile == [state |-> "broken", long_term |-> <<>>, index |-> <<>>]

\* store(memory_type, data) called by a task: the task waits in persist() when store
\* calls it, and the other tasks run meanwhile
StoreCall(task, t) ==
    /\ store_pc[task] = "idle"
    /\ StoreSync(t, "json")
    /\ store_pc' = [store_pc EXCEPT ![task] = IF persisted' THEN "submitted" ELSE "idle"]
    /\ saved' = NoSave
    /\ UNCHANGED <<disk, writing, clobbered>>

\* the executor thread of a task's persist() starts _save: it opens the file, which
\* empties it, and writes the long-term map as it is now
SaveOpen(task) ==
    /\ store_pc[task] = "submitted"
    /\ store_pc' = [store_pc EXCEPT ![task] = "open"]
    /\ writing' = [writing EXCEPT ![task] = JsonMap(long_term)]
    /\ clobbered' = IF \E other \in Tasks : store_pc[other] = "open"
                     THEN [u \in Tasks |-> store_pc'[u] = "open"]
                     ELSE [clobbered EXCEPT ![task] = FALSE]
    /\ disk' = BrokenFile
    /\ UNCHANGED <<max_short_term, short_term, long_term, index_by_type, saved, fresh, stores,
                   cleared_at, persisted, last, forgot, maintained>>

\* the thread writes the index as it is now and closes the file, and the task's store()
\* returns; two threads that wrote the file at the same time leave this thread's
\* document or a mix of the two
SaveClose(task) ==
    /\ store_pc[task] = "open"
    /\ store_pc' = [store_pc EXCEPT ![task] = "idle"]
    /\ \E mixed \in (IF clobbered[task] THEN BOOLEAN ELSE {FALSE}) :
           disk' = IF mixed THEN BrokenFile
                   ELSE [state |-> "json", long_term |-> writing[task],
                         index |-> index_by_type]
    /\ writing' = [writing EXCEPT ![task] = <<>>]
    /\ clobbered' = [clobbered EXCEPT ![task] = FALSE]
    /\ UNCHANGED <<max_short_term, short_term, long_term, index_by_type, saved, fresh, stores,
                   cleared_at, persisted, last, forgot, maintained>>

\* (mutant) the entries of a type, the newest first
OfTypeNewestFirst(s, t) ==
    LET m == SelectSeq(s, LAMBDA e : e.type = t)
    IN [i \in 1..Len(m) |-> m[Len(m) + 1 - i]]

\* the entries of a type in the short-term buffer, in its order
OfType(s, t) == SelectSeq(s, LAMBDA e : e.type = t)

\* (mutant) a recall that looks in the long-term memory first
RecallLongTermFirst(query, limit) ==
    IF query \in DOMAIN long_term
    THEN [none |-> FALSE, items |-> LastN(long_term[query], limit)]
    ELSE IF OfType(short_term, query) # <<>>
    THEN [none |-> FALSE, items |-> LastN(OfType(short_term, query), limit)]
    ELSE IF query = "recent_context" /\ short_term # <<>>
    THEN [none |-> FALSE, items |-> LastN(short_term, limit)]
    ELSE [none |-> TRUE, items |-> <<>>]

\* recall(query, limit), which changes nothing: the short-term entries of that type,
\* else the long-term list of that type, else the recent entries for
\* "recent_context", else None
Recall(query, limit) ==
    IF OfType(short_term, query) # <<>>
    THEN [none |-> FALSE, items |-> LastN(OfType(short_term, query), limit)]
    ELSE IF query \in DOMAIN long_term
    THEN [none |-> FALSE, items |-> LastN(long_term[query], limit)]
    ELSE IF query = "recent_context" /\ short_term # <<>>
    THEN [none |-> FALSE, items |-> LastN(short_term, limit)]
    ELSE [none |-> TRUE, items |-> <<>>]

\* (mutant) a test that keeps the entries stored at the cutoff too
KeptAtCutoff(e, cutoff) == Timestamp(e) >= cutoff

\* forget's test on an entry: datetime.fromisoformat(entry["timestamp"]) > cutoff_date
Kept(e, cutoff) == Timestamp(e) > cutoff

\* (mutant) a forget that filters the list of every type
ForgottenEveryType(lt, t, cutoff) ==
    [u \in DOMAIN lt |-> SelectSeq(lt[u], LAMBDA e : Kept(e, cutoff))]

\* forget's long-term map: the list of the type t filtered, when there is one
Forgotten(lt, t, cutoff) ==
    IF t \in DOMAIN lt
    THEN [lt EXCEPT ![t] = SelectSeq(lt[t], LAMBDA e : Kept(e, cutoff))]
    ELSE lt

\* forget(memory_type, older_than_days), called idle days after the latest store():
\* the entries of the type that are not newer than the cutoff go from the long-term
\* list; persist(); the number of entries that went is returned
Forget(t, days, idle) ==
    /\ maintained < MaxMaintain
    /\ LET cutoff == (stores + idle) - days
           kept == SelectSeq(Get(long_term, t, <<>>), LAMBDA e : Kept(e, cutoff))
           lt == Forgotten(long_term, t, cutoff)
       IN /\ long_term' = lt
          /\ disk' = Save(lt, index_by_type)
          /\ saved' = Snapshot(lt, index_by_type)
          /\ forgot' = [called |-> TRUE, type |-> t, days |-> days,
                        count |-> IF t \in DOMAIN long_term
                                  THEN Len(long_term[t]) - Len(kept) ELSE 0]
    /\ last' = NoEntry
    /\ fresh' = NoFresh
    /\ maintained' = maintained + 1
    /\ UNCHANGED <<max_short_term, short_term, index_by_type, store_pc, writing, clobbered,
                   stores, cleared_at, persisted>>

\* clear(): the two memories and the index emptied; persist()
Clear ==
    /\ maintained < MaxMaintain
    /\ short_term' = <<>>
    /\ long_term' = <<>>
    /\ index_by_type' = <<>>
    /\ disk' = Save(<<>>, <<>>)
    /\ saved' = Snapshot(<<>>, <<>>)
    /\ cleared_at' = stores
    /\ last' = NoEntry
    /\ forgot' = NoForget
    /\ fresh' = NoFresh
    /\ maintained' = maintained + 1
    /\ UNCHANGED <<max_short_term, store_pc, writing, clobbered, stores, persisted>>

\* persist(), called by the user of the memory: _save runs in the executor while the
\* caller waits for it
Persist ==
    /\ disk' = Save(long_term, index_by_type)
    /\ saved' = Snapshot(long_term, index_by_type)
    /\ forgot' = NoForget
    /\ fresh' = NoFresh
    /\ UNCHANGED <<max_short_term, short_term, long_term, index_by_type, store_pc, writing,
                   clobbered, stores, cleared_at, persisted, last, maintained>>

\* MemoryModule(memory_file) for a second object on the same file: __init__ and _load
Construct ==
    /\ fresh' = [made |-> TRUE, long_term |-> Load(disk).long_term,
                 index |-> Load(disk).index]
    /\ UNCHANGED <<max_short_term, short_term, long_term, index_by_type, disk, saved,
                   store_pc, writing, clobbered, stores, cleared_at, persisted, last, forgot,
                   maintained>>

(***************************************************************************)
(* CognitiveCore.  memory.store suspends the caller when it persists (every *)
(* tenth entry), and returns at once otherwise: both can happen at each     *)
(* call.  Nothing else in perceive, think, act or cognitive_cycle yields    *)
(* to the event loop, so a cycle is one step, or two around act's store.    *)
(* A step that publishes waits for room in the queue (MaxQueue).            *)
(***************************************************************************)
NoCycle == [thought |-> FALSE, decision |-> NoneDecision, emits |-> <<>>,
            stores |-> <<>>, done |-> FALSE]

\* a run() task that has published nothing: whether it has published its start event,
\* how many stop events, the state at the stop event, whether a cycle published
\* before the start event (early) or after a stop event (late)
NoRun == [started |-> FALSE, stopped |-> 0, state |-> "none", early |-> FALSE,
          late |-> FALSE]

\* the history of a run() task that publishes the events es and leaves the state st
Published(h, es, st) ==
    LET F[i \in 0..Len(es)] ==
            IF i = 0 THEN h
            ELSE IF es[i].type = "cognitive_core_started"
                 THEN [F[i - 1] EXCEPT !.started = TRUE]
            ELSE IF es[i].type = "cognitive_core_stopped"
                 THEN [F[i - 1] EXCEPT !.stopped = IF @ < 2 THEN @ + 1 ELSE @, !.state = st]
            ELSE [F[i - 1] EXCEPT !.early = @ \/ ~F[i - 1].started,
                                  !.late = @ \/ F[i - 1].stopped > 0]
    IN F[Len(es)]

\* what a step has added to the queue q
Added(q, q2) == SubSeq(q2, Len(q) + 1, Len(q2))

\* __init__ (the two subscribe calls are in the specifications' Init), with an engine
\* whose rules are rs
InitCoreWith(rs) ==
    /\ core_state = "idle"
    /\ core_running = FALSE
    /\ perceptions = <<>>
    /\ clock = 0
    /\ run_pc = "none"
    /\ acting = NoneDecision
    /\ handler_wait = 0
    /\ direct_wait = 0
    /\ rules = rs
    /\ adaptive_weights = [n \in {rs[i].name : i \in 1..Len(rs)} |-> WeightOne]
    /\ added = Len(rs)
    /\ reasoned = NoReason
    /\ execution_count = [i \in {rs[k].id : k \in 1..Len(rs)} |-> 0]
    /\ reasoning_history = <<>>
    /\ reasons = 0
    /\ conds = <<>>
    /\ stop_requested = FALSE
    /\ cycle = NoCycle
    /\ perceived = [stores |-> 0, events |-> 0]
    /\ run_hist = NoRun

InitCore == InitCoreWith(CoreRules)

\* (mutant) a core that also listens to the events it publishes in perceive()
CoreListensToItself ==
    [t \in {"perception", "sensor_data", "perception_received"} |-> <<"_on_perception">>]

\* the listener table after CognitiveCore.__init__ on a new bus
CoreListeners ==
    [t \in {"perception", "sensor_data"} |-> <<"_on_perception">>]

\* (mutant) a cut that keeps the oldest perceptions
CompactOldest(p) ==
    IF Len(p) > PerceptionLimit THEN SubSeq(p, 1, PerceptionKeep) ELSE p

\* (mutant) a cycle that consumes the perceptions it has reasoned over
CompactConsumed(p) ==
    IF Len(p) > PerceptionLimit THEN SubSeq(p, Len(p) - PerceptionKeep + 1, Len(p)) ELSE <<>>

\* cognitive_cycle's clean-up: self._perceptions[-50:] once there are more than 100
Compact(p) ==
    IF Len(p) > PerceptionLimit THEN SubSeq(p, Len(p) - PerceptionKeep + 1, Len(p)) ELSE p

\* (mutant) a cycle that acts on every decision
ShouldActAlways(d) == TRUE

\* cognitive_cycle: decision.get("action") != "observe"
ShouldAct(d) == d.action # "observe"

\* (mutant) a think() without the test of the log
ThinkEager(percs, S) ==
    LET d == Reason(rules, adaptive_weights, Len(percs), S)
    IN [absent |-> FALSE, decision |-> d, calls |-> <<"memory.recall", "reasoning.reason">>,
        emits |-> <<Event("thought_completed", d.action)>>]

\* think(): None without perceptions; else memory.recall, the engine's decision, and
\* the thought published; calls are the calls it makes on the memory and the engine
Think(percs, S) ==
    IF percs = <<>>
    THEN [absent |-> TRUE, decision |-> NoneDecision, calls |-> <<>>, emits |-> <<>>]
    ELSE LET d == Reason(rules, adaptive_weights, Len(percs), S)
         IN [absent |-> FALSE, decision |-> d,
             calls |-> <<"memory.recall", "reasoning.reason">>,
             emits |-> <<Event("thought_completed", d.action)>>]

\* act(action), after its memory.store: the event for the actuators
ActEmit(d) == <<Event("action_requested", d.action)>>

\* one cognitive_cycle up to its end, to act's suspension in memory.store, or to
\* the AttributeError of None.get: what it publishes and stores, and where it stops
CognitiveCycle(percs, S, susp) ==
    LET t == Think(percs, S)
        base == [thought |-> ~t.absent, decision |-> t.decision, emits |-> t.emits,
                 stores |-> <<>>, next |-> "sleep", perceptions |-> Compact(percs)]
    IN IF t.absent THEN base
       ELSE IF IsNone(t.decision)
            THEN [base EXCEPT !.next = "raise", !.perceptions = percs]
       ELSE IF ~ShouldAct(t.decision) THEN base
       ELSE IF susp
            THEN [base EXCEPT !.stores = <<"action">>, !.next = "act_store",
                              !.perceptions = percs]
       ELSE [base EXCEPT !.stores = <<"action">>,
                         !.emits = t.emits \o ActEmit(t.decision)]

\* (mutant) a finally clause that publishes nothing
FinallySilent(q) == q

\* run()'s finally clause: the state, and the stop event
Finally(q) == Append(q, Event("cognitive_core_stopped", ""))

\* the while body of run(): a cycle from the queue q, then the sleep; an exception
\* of the cycle leaves run() through the finally clause
RunCycle(q) ==
    \E S \in SUBSET (1..Len(rules)), susp \in BOOLEAN :
        LET c == CognitiveCycle(perceptions, S, susp)
            failed == c.next = "raise"
            q2 == IF failed THEN Finally(q \o c.emits) ELSE q \o c.emits
        IN /\ Len(q2) <= MaxQueue
           /\ event_queue' = q2
           /\ perceptions' = c.perceptions
           /\ run_pc' = IF failed THEN "failed" ELSE c.next
           /\ core_state' = IF failed THEN "stopped" ELSE "running"
           /\ acting' = IF c.next = "act_store" THEN c.decision ELSE NoneDecision
           /\ cycle' = [thought |-> c.thought, decision |-> c.decision, emits |-> c.emits,
                        stores |-> c.stores, done |-> c.next = "sleep"]

\* asyncio.create_task(core.run()): the task exists and has not run yet
CreateRun ==
    /\ run_pc \in {"none", "done", "failed", "cancelled"}
    /\ run_pc' = "created"
    /\ stop_requested' = FALSE
    /\ run_hist' = NoRun
    /\ UNCHANGED <<core_state, core_running, perceptions, clock, acting, handler_wait,
                   direct_wait, rules, adaptive_weights, cycle, perceived, busVars>>

\* run(), to its first suspension: the flag and the state set, the start event, the
\* while test, the first cycle
RunStart ==
    /\ run_pc = "created"
    /\ core_running' = TRUE
    /\ RunCycle(Append(event_queue, Event("cognitive_core_started", "")))
    /\ run_hist' = Published(run_hist, Added(event_queue, event_queue'), core_state')
    /\ UNCHANGED <<clock, handler_wait, direct_wait, rules, adaptive_weights,
                   stop_requested, perceived>>
    /\ UNCHANGED <<listeners, bus_running, bus_pc, cur, idx, callback, live, published,
                   delivered, stable, touched, sub_calls>>

\* asyncio.sleep returns: the while test, then the next cycle or the finally clause
RunWake ==
    /\ run_pc = "sleep"
    /\ IF core_running
       THEN RunCycle(event_queue)
       ELSE /\ Len(event_queue) < MaxQueue
            /\ event_queue' = Finally(event_queue)
            /\ core_state' = "stopped"
            /\ run_pc' = "done"
            /\ UNCHANGED <<perceptions, acting, cycle>>
    /\ run_hist' = Published(run_hist, Added(event_queue, event_queue'), core_state')
    /\ UNCHANGED <<core_running, clock, handler_wait, direct_wait, rules, adaptive_weights,
                   stop_requested, perceived>>
    /\ UNCHANGED <<listeners, bus_running, bus_pc, cur, idx, callback, live, published,
                   delivered, stable, touched, sub_calls>>

\* memory.store returns in act(): the action event, the clean-up of the log, the sleep
ActResume ==
    /\ run_pc = "act_store"
    /\ Len(event_queue) < MaxQueue
    /\ event_queue' = event_queue \o ActEmit(acting)
    /\ perceptions' = Compact(perceptions)
    /\ run_pc' = "sleep"
    /\ acting' = NoneDecision
    /\ cycle' = [cycle EXCEPT !.emits = @ \o ActEmit(acting), !.done = TRUE]
    /\ run_hist' = Published(run_hist, Added(event_queue, event_queue'), core_state')
    /\ UNCHANGED <<core_state, core_running, clock, handler_wait, direct_wait, rules,
                   adaptive_weights, stop_requested, perceived>>
    /\ UNCHANGED <<listeners, bus_running, bus_pc, cur, idx, callback, live, published,
                   delivered, stable, touched, sub_calls>>

\* stop()
CoreStop ==
    /\ core_running' = FALSE
    /\ stop_requested' = (run_pc \in {"created", "sleep", "act_store"})
    /\ UNCHANGED <<core_state, perceptions, clock, run_pc, acting, handler_wait, direct_wait,
                   rules, adaptive_weights, cycle, perceived, run_hist, busVars>>

\* task.cancel() on the run() task, and the task's next step: a task that has not run
\* yet ends without running; a task that waits in asyncio.sleep, or in act's
\* memory.store, gets the CancelledError there and leaves through the finally clause
CancelRun ==
    /\ run_pc \in {"created", "sleep", "act_store"}
    /\ run_pc' = "cancelled"
    /\ IF run_pc = "created"
       THEN UNCHANGED <<event_queue, core_state, acting, run_hist>>
       ELSE /\ Len(event_queue) < MaxQueue
            /\ event_queue' = Finally(event_queue)
            /\ core_state' = "stopped"
            /\ acting' = NoneDecision
            /\ run_hist' = Published(run_hist, Added(event_queue, event_queue'), core_state')
    /\ UNCHANGED <<core_running, perceptions, clock, handler_wait, direct_wait, rules,
                   adaptive_weights, stop_requested, cycle, perceived>>
    /\ UNCHANGED <<listeners, bus_running, bus_pc, cur, idx, callback, live, published,
                   delivered, stable, touched, sub_calls>>

\* (mutant) a perceive() that publishes its perception under the sensors' event type
PerceiveEmitAsSensor(p) == Event("perception", p)

\* the event perceive() publishes
PerceiveEmit(p) == Event("perception_received", p)

\* perceive() has called memory.store("perception", ...)
PerceiveStored == [perceived EXCEPT !.stores = @ + 1]

\* perceive() has published the event e
PerceivePublished(pv, e) ==
    [pv EXCEPT !.events = @ + (IF e.type = "perception_received" THEN 1 ELSE 0)]

\* _on_perception(event) -> perceive(event.data): the perception is logged and stored;
\* published at once, or after memory.store has persisted
OnPerception ==
    /\ bus_pc = "handler"
    /\ callback = "_on_perception"
    /\ handler_wait = 0
    /\ perceptions' = Append(perceptions, clock + 1)
    /\ clock' = clock + 1
    /\ \E susp \in BOOLEAN :
          IF susp
          THEN /\ handler_wait' = clock + 1
               /\ perceived' = PerceiveStored
               /\ UNCHANGED <<event_queue, bus_pc, callback>>
          ELSE /\ Len(event_queue) < MaxQueue
               /\ event_queue' = Append(event_queue, PerceiveEmit(clock + 1))
               /\ perceived' = PerceivePublished(PerceiveStored, PerceiveEmit(clock + 1))
               /\ bus_pc' = "dispatch"
               /\ callback' = "none"
               /\ UNCHANGED handler_wait
    /\ UNCHANGED <<core_state, core_running, run_pc, acting, direct_wait, rules,
                   adaptive_weights, stop_requested, cycle, run_hist>>
    /\ UNCHANGED <<listeners, bus_running, cur, idx, live, published, delivered, stable,
                   touched, sub_calls>>

\* memory.store returns in the handler's perceive(): the event, and back in _dispatch
OnPerceptionResume ==
    /\ bus_pc = "handler"
    /\ handler_wait # 0
    /\ Len(event_queue) < MaxQueue
    /\ event_queue' = Append(event_queue, PerceiveEmit(handler_wait))
    /\ perceived' = PerceivePublished(perceived, PerceiveEmit(handler_wait))
    /\ handler_wait' = 0
    /\ bus_pc' = "dispatch"
    /\ callback' = "none"
    /\ UNCHANGED <<core_state, core_running, perceptions, clock, run_pc, acting, direct_wait,
                   rules, adaptive_weights, stop_requested, cycle, run_hist>>
    /\ UNCHANGED <<listeners, bus_running, cur, idx, live, published, delivered, stable,
                   touched, sub_calls>>

\* perceive(data), called directly by one caller at a time
Perceive ==
    /\ direct_wait = 0
    /\ clock < MaxPerceive
    /\ perceptions' = Append(perceptions, clock + 1)
    /\ clock' = clock + 1
    /\ \E susp \in BOOLEAN :
          IF susp
          THEN /\ direct_wait' = clock + 1
               /\ perceived' = PerceiveStored
               /\ UNCHANGED event_queue
          ELSE /\ Len(event_queue) < MaxQueue
               /\ event_queue' = Append(event_queue, PerceiveEmit(clock + 1))
               /\ perceived' = PerceivePublished(PerceiveStored, PerceiveEmit(clock + 1))
               /\ UNCHANGED direct_wait
    /\ UNCHANGED <<core_state, core_running, run_pc, acting, handler_wait, rules,
                   adaptive_weights, stop_requested, cycle, run_hist>>
    /\ UNCHANGED <<listeners, bus_running, bus_pc, cur, idx, callback, live, published,
                   delivered, stable, touched, sub_calls>>

\* memory.store returns in a direct perceive(): the event
PerceiveResume ==
    /\ direct_wait # 0
    /\ Len(event_queue) < MaxQueue
    /\ event_queue' = Append(event_queue, PerceiveEmit(direct_wait))
    /\ perceived' = PerceivePublished(perceived, PerceiveEmit(direct_wait))
    /\ direct_wait' = 0
    /\ UNCHANGED <<core_state, core_running, perceptions, clock, run_pc, acting, handler_wait,
                   rules, adaptive_weights, stop_requested, cycle, run_hist>>
    /\ UNCHANGED <<listeners, bus_running, bus_pc, cur, idx, callback, live, published,
                   delivered, stable, touched, sub_calls>>

(***************************************************************************)
(* SynapseBridge (src/src/multimodal/synapse_bridge.py).  A context entry   *)
(* is the payload of its event, which is the event's number.  A handler of  *)
(* the bridge has no await that yields: it is one step.                     *)
(***************************************************************************)
Modalities == {"vision", "audio", "text"}

\* the event type of a modality, and the handler __init__ subscribes to it
DataType(m) == IF m = "vision" THEN "vision_data"
               ELSE IF m = "audio" THEN "audio_data" ELSE "text_data"
DataHandler(m) == IF m = "vision" THEN "_on_vision_data"
                  ELSE IF m = "audio" THEN "_on_audio_data" ELSE "_on_text_data"

\* the subscriptions of SynapseBridge.__init__: event type -> handler
BridgeHandlers ==
    [t \in {DataType(m) : m \in Modalities} \cup {"perception_received"} |->
        IF t = "perception_received" THEN "_on_perception"
        ELSE DataHandler(CHOOSE m \in Modalities : DataType(m) = t)]

\* SynapseBridge(event_bus, context_window): the four deques, the empty history, and
\* the four subscriptions
ConstructBridge(window) ==
    /\ shared_context = <<>>
    /\ context_window' = window
    /\ shared_context' = [m \in Modalities \cup {"unified"} |-> <<>>]
    /\ sync_history' = <<>>
    /\ listeners' = [t \in DOMAIN listeners \cup DOMAIN BridgeHandlers |->
                        IF t \in DOMAIN BridgeHandlers
                        THEN Append(Get(listeners, t, <<>>), BridgeHandlers[t])
                        ELSE listeners[t]]
    /\ UNCHANGED <<event_queue, bus_running, bus_pc, cur, idx, callback, live, published,
                   delivered, stable, touched, sub_calls>>

\* _sync_context's limit on the history: self._sync_history[-500:] once it holds more
\* than 1000 records
SyncTruncate(h) ==
    IF Len(h) > SyncLimit THEN SubSeq(h, Len(h) - SyncKeep + 1, Len(h)) ELSE h

\* _create_embedding can slice what it reads from the payload: always for text
\* (str(data)); for vision and audio unless the payload is a dict whose "prompt" or
\* "text" is no string (None, a number)
Sliceable(m) == IF m = "text" THEN {TRUE} ELSE BOOLEAN

\* _on_vision_data, _on_audio_data, _on_text_data, called by _dispatch: the entry
\* goes to the deque of the modality; _sync_context builds the embedding, appends the
\* unified entry and the record of the synchronisation, and publishes "synapse_sync";
\* an exception of _create_embedding leaves the handler before all that
OnModalityData ==
    /\ bus_pc = "handler"
    /\ \E m \in Modalities :
          /\ callback = DataHandler(m)
          /\ LET own == [shared_context EXCEPT
                            ![m] = DequeAppend(@, cur.data, context_window)]
             IN \E sliceable \in Sliceable(m) :
                   IF sliceable
                   THEN /\ shared_context' =
                              [own EXCEPT !["unified"] =
                                  DequeAppend(@, [modality |-> m, data |-> cur.data],
                                              context_window)]
                        /\ sync_history' =
                              SyncTruncate(Append(sync_history,
                                  [modality |-> m,
                                   context_state |-> [k \in Modalities |-> Len(own[k])]]))
                        /\ event_queue' = Append(event_queue, Event("synapse_sync", m))
                   ELSE /\ shared_context' = own
                        /\ UNCHANGED <<sync_history, event_queue>>
    /\ bus_pc' = "dispatch"
    /\ callback' = "none"
    /\ UNCHANGED <<listeners, bus_running, cur, idx, live, published, delivered, stable,
                   touched, sub_calls, context_window>>

(***************************************************************************)
(* SpecBus: the EventBus with abstract handlers; no CognitiveCore is built. *)
(***************************************************************************)
\* EventBus(); the core's variables stay as they start
InitBus == InitBusWith(<<>>) /\ InitCore /\ InitMemoryWith(DefaultCapacity) /\ NoBridge

NextBus ==
    \/ (\E t \in Types, h \in Handlers : Subscribe(t, h)) /\ UNCHANGED <<coreVars, sideVars>>
    \/ (\E t \in Types, h \in Handlers : Unsubscribe(t, h)) /\ UNCHANGED <<coreVars, sideVars>>
    \/ (\E t \in Types : Emit(t)) /\ UNCHANGED <<coreVars, sideVars>>
    \/ BusStart /\ UNCHANGED <<coreVars, sideVars>>
    \/ BusGet /\ UNCHANGED <<coreVars, sideVars>>
    \/ BusTimeout /\ UNCHANGED <<coreVars, sideVars>>
    \/ InvokeHandler /\ UNCHANGED <<coreVars, sideVars>>
    \/ HandlerDone /\ UNCHANGED <<coreVars, sideVars>>
    \/ DispatchEnd /\ UNCHANGED <<coreVars, sideVars>>
    \/ BusStop /\ UNCHANGED <<coreVars, sideVars>>

SpecBus == InitBus /\ [][NextBus]_vars

(***************************************************************************)
(* SpecSynapse: a SynapseBridge is constructed on a bus of its own, and     *)
(* events of the three modalities are published and dispatched.             *)
(***************************************************************************)
ContextWindows == {1, 2}

NextSynapse ==
    \/ (\E window \in ContextWindows : ConstructBridge(window))
          /\ UNCHANGED <<coreVars, engineVars, memoryVars>>
    \/ (\E m \in Modalities : Emit(DataType(m))) /\ UNCHANGED <<coreVars, sideVars>>
    \/ BusStart /\ UNCHANGED <<coreVars, sideVars>>
    \/ BusGet /\ UNCHANGED <<coreVars, sideVars>>
    \/ BusTimeout /\ UNCHANGED <<coreVars, sideVars>>
    \/ InvokeHandler /\ UNCHANGED <<coreVars, sideVars>>
    \/ OnModalityData /\ UNCHANGED <<coreVars, engineVars, memoryVars>>
    \/ DispatchEnd /\ UNCHANGED <<coreVars, sideVars>>

SpecSynapse == InitBus /\ [][NextSynapse]_vars

(***************************************************************************)
(* SpecQueue: a bus with two handlers on "ping" and one on "pong", on which *)
(* events are published only while no dispatch loop runs: before start(),   *)
(* or after the loop has left on stop().                                    *)
(***************************************************************************)
QueueListeners == [t \in Types |-> IF t = "ping" THEN <<"h1", "hx">> ELSE <<"h1">>]

LoopOff == bus_pc \in {"idle", "done"}

InitQueue ==
    InitBusWith(QueueListeners) /\ InitCore /\ InitMemoryWith(DefaultCapacity) /\ NoBridge

NextQueue ==
    \/ (\E t \in Types : Emit(t) /\ LoopOff) /\ UNCHANGED <<coreVars, sideVars>>
    \/ BusStart /\ UNCHANGED <<coreVars, sideVars>>
    \/ BusGet /\ UNCHANGED <<coreVars, sideVars>>
    \/ BusTimeout /\ UNCHANGED <<coreVars, sideVars>>
    \/ InvokeHandler /\ UNCHANGED <<coreVars, sideVars>>
    \/ HandlerDone /\ UNCHANGED <<coreVars, sideVars>>
    \/ DispatchEnd /\ UNCHANGED <<coreVars, sideVars>>
    \/ BusStop /\ UNCHANGED <<coreVars, sideVars>>

SpecQueue == InitQueue /\ [][NextQueue]_vars

(***************************************************************************)
(* SpecCore: a CognitiveCore on a started bus; sensors publish "perception" *)
(* and "sensor_data" events, and run() is created, stopped and created      *)
(* again.                                                                   *)
(***************************************************************************)
SensorTypes == {"perception", "sensor_data"}

\* EventBus(), then CognitiveCore(event_bus, memory, reasoning)
InitCoreBus ==
    InitBusWith(CoreListeners) /\ InitCore /\ InitMemoryWith(DefaultCapacity) /\ NoBridge

NextCore ==
    \/ (\E t \in SensorTypes : Emit(t) /\ Len(event_queue) < MaxQueue) /\ UNCHANGED <<coreVars, sideVars>>
    \/ BusStart /\ UNCHANGED <<coreVars, sideVars>>
    \/ BusGet /\ UNCHANGED <<coreVars, sideVars>>
    \/ BusTimeout /\ UNCHANGED <<coreVars, sideVars>>
    \/ InvokeHandler /\ UNCHANGED <<coreVars, sideVars>>
    \/ DispatchEnd /\ UNCHANGED <<coreVars, sideVars>>
    \/ OnPerception /\ UNCHANGED sideVars
    \/ OnPerceptionResume /\ UNCHANGED sideVars
    \/ CreateRun /\ UNCHANGED sideVars
    \/ RunStart /\ UNCHANGED sideVars
    \/ RunWake /\ UNCHANGED sideVars
    \/ ActResume /\ UNCHANGED sideVars
    \/ CoreStop /\ UNCHANGED sideVars

SpecCore == InitCoreBus /\ [][NextCore]_vars

(***************************************************************************)
(* SpecRun: SpecCore with run() tasks that are cancelled, too.              *)
(***************************************************************************)
NextRun ==
    \/ (\E t \in SensorTypes : Emit(t) /\ Len(event_queue) < MaxQueue) /\ UNCHANGED <<coreVars, sideVars>>
    \/ BusStart /\ UNCHANGED <<coreVars, sideVars>>
    \/ BusGet /\ UNCHANGED <<coreVars, sideVars>>
    \/ BusTimeout /\ UNCHANGED <<coreVars, sideVars>>
    \/ InvokeHandler /\ UNCHANGED <<coreVars, sideVars>>
    \/ DispatchEnd /\ UNCHANGED <<coreVars, sideVars>>
    \/ OnPerception /\ UNCHANGED sideVars
    \/ OnPerceptionResume /\ UNCHANGED sideVars
    \/ CreateRun /\ UNCHANGED sideVars
    \/ RunStart /\ UNCHANGED sideVars
    \/ RunWake /\ UNCHANGED sideVars
    \/ ActResume /\ UNCHANGED sideVars
    \/ CoreStop /\ UNCHANGED sideVars
    \/ CancelRun /\ UNCHANGED sideVars

SpecRun == InitCoreBus /\ [][NextRun]_vars

(***************************************************************************)
(* SpecCoreLog: the perception log under direct perceive() calls, enough of *)
(* them to fill it, with run() and the bus beside.                          *)
(***************************************************************************)
NextCoreLog ==
    \/ BusStart /\ UNCHANGED <<coreVars, sideVars>>
    \/ BusGet /\ UNCHANGED <<coreVars, sideVars>>
    \/ BusTimeout /\ UNCHANGED <<coreVars, sideVars>>
    \/ DispatchEnd /\ UNCHANGED <<coreVars, sideVars>>
    \/ Perceive /\ UNCHANGED sideVars
    \/ PerceiveResume /\ UNCHANGED sideVars
    \/ CreateRun /\ UNCHANGED sideVars
    \/ RunStart /\ UNCHANGED sideVars
    \/ RunWake /\ UNCHANGED sideVars
    \/ ActResume /\ UNCHANGED sideVars

SpecCoreLog == InitCoreBus /\ [][NextCoreLog]_vars

(***************************************************************************)
(* SpecCompact: SpecCoreLog with a run() task that is created when the log  *)
(* is one perception short of its limit, or later.                          *)
(***************************************************************************)
NextCompact ==
    \/ BusStart /\ UNCHANGED <<coreVars, sideVars>>
    \/ BusGet /\ UNCHANGED <<coreVars, sideVars>>
    \/ BusTimeout /\ UNCHANGED <<coreVars, sideVars>>
    \/ DispatchEnd /\ UNCHANGED <<coreVars, sideVars>>
    \/ Perceive /\ UNCHANGED sideVars
    \/ PerceiveResume /\ UNCHANGED sideVars
    \/ CreateRun /\ clock >= PerceptionLimit - 1 /\ UNCHANGED sideVars
    \/ RunStart /\ UNCHANGED sideVars
    \/ RunWake /\ UNCHANGED sideVars
    \/ ActResume /\ UNCHANGED sideVars

SpecCompact == InitCoreBus /\ [][NextCompact]_vars

(***************************************************************************)
(* SpecPerceive: perceive() called directly and by _on_perception for the   *)
(* sensors' events, on a started bus; run() is not started.                 *)
(***************************************************************************)
NextPerceive ==
    \/ (\E t \in SensorTypes : Emit(t) /\ Len(event_queue) < MaxQueue) /\ UNCHANGED <<coreVars, sideVars>>
    \/ BusStart /\ UNCHANGED <<coreVars, sideVars>>
    \/ BusGet /\ UNCHANGED <<coreVars, sideVars>>
    \/ BusTimeout /\ UNCHANGED <<coreVars, sideVars>>
    \/ InvokeHandler /\ UNCHANGED <<coreVars, sideVars>>
    \/ DispatchEnd /\ UNCHANGED <<coreVars, sideVars>>
    \/ OnPerception /\ UNCHANGED sideVars
    \/ OnPerceptionResume /\ UNCHANGED sideVars
    \/ Perceive /\ clock < MaxEmit /\ UNCHANGED sideVars
    \/ PerceiveResume /\ UNCHANGED sideVars

SpecPerceive == InitCoreBus /\ [][NextPerceive]_vars

(***************************************************************************)
(* SpecEngine: a ReasoningEngine of its own: rules are added and removed,   *)
(* weights adapted, and reason() called with any conditions holding.        *)
(***************************************************************************)
RuleNames == {"a", "b"}
Priorities == {5, 10}
\* the rule whose performance is scored, and the scores, in tenths
AdaptNames == {"a"}
Scores == {0, 5, 10}
\* the numbers of perceptions reason() is called with; the number makes a difference
\* only when no condition holds
PerceptionCounts == {0, 1, 10, 11}

\* the variables of the core that are not the engine's
engineRest == <<core_state, core_running, perceptions, clock, run_pc, acting, handler_wait,
                direct_wait, stop_requested, cycle, perceived, run_hist>>

\* ReasoningEngine()
InitEngine ==
    InitBusWith(<<>>) /\ InitCoreWith(<<>>) /\ InitMemoryWith(DefaultCapacity) /\ NoBridge

NextEngine ==
    \/ (\E name \in RuleNames, priority \in Priorities : AddRule(name, priority))
          /\ UNCHANGED <<busVars, engineRest, memoryVars, bridgeVars>>
    \/ (\E name \in RuleNames : RemoveRule(name))
          /\ UNCHANGED <<busVars, engineRest, memoryVars, bridgeVars>>
    \/ (\E name \in AdaptNames, score \in Scores : Adapt(name, score))
          /\ UNCHANGED <<busVars, engineRest, memoryVars, bridgeVars>>
    \/ (\E S \in SUBSET (1..Len(rules)) :
           \E n \in (IF S = {} THEN PerceptionCounts ELSE {1}) : ReasonCall(n, S))
          /\ UNCHANGED <<busVars, engineRest, memoryVars, bridgeVars>>

SpecEngine == InitEngine /\ [][NextEngine]_vars

(***************************************************************************)
(* SpecReason: the engine the core is built with, under reason() calls in   *)
(* which every condition returns True or False or raises.                   *)
(***************************************************************************)
NextReason ==
    (\E n \in PerceptionCounts, cond \in [1..Len(rules) -> Outcomes] :
        ReasonRun(n, cond) /\ reasons < MaxReason)
    /\ UNCHANGED <<busVars, engineRest, memoryVars, bridgeVars>>

SpecReason == InitCoreBus /\ [][NextReason]_vars

(***************************************************************************)
(* SpecHistory: the same engine under enough reason() calls to fill the     *)
(* history: the calls select the first rule until the history is two        *)
(* records short of its limit, and are free from there.                     *)
(***************************************************************************)
FirstRuleHolds == [i \in 1..Len(rules) |-> IF i = 1 THEN "true" ELSE "false"]

NextHistory ==
    (\E cond \in [1..Len(rules) -> Outcomes] :
        /\ Len(reasoning_history) >= HistoryLimit - 2 \/ cond = FirstRuleHolds
        /\ ReasonRun(1, cond) /\ reasons < MaxHistoryCalls)
    /\ UNCHANGED <<busVars, engineRest, memoryVars, bridgeVars>>

SpecHistory == InitCoreBus /\ [][NextHistory]_vars

(***************************************************************************)
(* SpecMemory: a MemoryModule of its own, of one of the capacities, under   *)
(* store, forget and clear calls; recall reads the memory.                  *)
(***************************************************************************)
MemoryTypes == {"x", "y"}
Capacities == {0, 3, 10}
\* forget's older_than_days, and the days since the latest store() at a forget() call
ForgetDays == {0, 2}
IdleDays == {0, 1}

InitMemory ==
    /\ InitBusWith(<<>>) /\ InitCoreWith(<<>>) /\ NoBridge
    /\ \E capacity \in Capacities : InitMemoryWith(capacity)

NextMemory ==
    \/ (\E t \in MemoryTypes : Store(t, "json")) /\ UNCHANGED <<busVars, coreVars, engineVars, bridgeVars>>
    \/ (\E t \in MemoryTypes, days \in ForgetDays, idle \in IdleDays : Forget(t, days, idle))
          /\ UNCHANGED <<busVars, coreVars, engineVars, bridgeVars>>
    \/ Clear /\ UNCHANGED <<busVars, coreVars, engineVars, bridgeVars>>

SpecMemory == InitMemory /\ [][NextMemory]_vars

(***************************************************************************)
(* SpecDisk: a MemoryModule and its memory file, under store calls with     *)
(* data of every shape, forget, clear and persist calls, and the            *)
(* construction of a second MemoryModule on the same file.                  *)
(***************************************************************************)
Shapes == {"json", "tuple", "set"}

NextDisk ==
    \/ (\E t \in MemoryTypes, shape \in Shapes : Store(t, shape) /\ stores < MaxDiskStore)
          /\ UNCHANGED <<busVars, coreVars, engineVars, bridgeVars>>
    \/ (\E t \in MemoryTypes, days \in ForgetDays, idle \in IdleDays : Forget(t, days, idle))
          /\ UNCHANGED <<busVars, coreVars, engineVars, bridgeVars>>
    \/ Clear /\ UNCHANGED <<busVars, coreVars, engineVars, bridgeVars>>
    \/ Persist /\ UNCHANGED <<busVars, coreVars, engineVars, bridgeVars>>
    \/ Construct /\ UNCHANGED <<busVars, coreVars, engineVars, bridgeVars>>

SpecDisk == InitMemory /\ [][NextDisk]_vars

(***************************************************************************)
(* SpecTasks: one MemoryModule whose store() is called by two tasks of the  *)
(* event loop; a persist() that store() calls runs _save on a thread of the *)
(* executor.                                                                *)
(***************************************************************************)
TaskCapacities == {10}

InitTasks ==
    /\ InitBusWith(<<>>) /\ InitCoreWith(<<>>) /\ NoBridge
    /\ \E capacity \in TaskCapacities : InitMemoryWith(capacity)

NextTasks ==
    \/ (\E task \in Tasks, t \in MemoryTypes : StoreCall(task, t) /\ stores < MaxTaskStore)
          /\ UNCHANGED <<busVars, coreVars, engineVars, bridgeVars>>
    \/ (\E task \in Tasks : SaveOpen(task)) /\ UNCHANGED <<busVars, coreVars, engineVars, bridgeVars>>
    \/ (\E task \in Tasks : SaveClose(task)) /\ UNCHANGED <<busVars, coreVars, engineVars, bridgeVars>>

SpecTasks == InitTasks /\ [][NextTasks]_vars

\* the dispatch loop's steps are taken whenever they stay possible: the event loop runs
\* every ready task, wait_for's timeout always expires, and the handler in progress
\* is assumed to return
BusTaskStep ==
    /\ BusGet \/ BusTimeout \/ InvokeHandler \/ HandlerDone \/ DispatchEnd
    /\ UNCHANGED <<coreVars, sideVars>>

SpecBusFair == SpecBus /\ WF_vars(BusTaskStep)

(***************************************************************************)
(* Properties of the EventBus                                               *)
(***************************************************************************)
IsPrefix(a, b) == Len(a) <= Len(b) /\ \A i \in 1..Len(a) : a[i] = b[i]

RECURSIVE Count(_, _)
Count(s, x) == IF s = <<>> THEN 0 ELSE (IF Head(s) = x THEN 1 ELSE 0) + Count(Tail(s), x)

\* the payloads of a sequence of delivery records
Payloads(ds) == [k \in 1..Len(ds) |-> ds[k].ev]

\* the payloads published on type t, in publish order
RECURSIVE PublishedFrom(_, _)
PublishedFrom(t, k) ==
    IF k > Len(published) THEN <<>>
    ELSE (IF published[k] = t THEN <<k>> ELSE <<>>) \o PublishedFrom(t, k + 1)
PublishedOf(t) == PublishedFrom(t, 1)

\* what the i-th subscription of type t has been invoked with, and what handler h has
SlotLog(t, i) == SelectSeq(delivered, LAMBDA d : d.type = t /\ d.slot = i)
ObservedBy(h, t) == Payloads(SelectSeq(delivered, LAMBDA d : d.type = t /\ d.h = h))

Drained == event_queue = <<>> /\ ~Dispatching

\* C1: every handler observes the events of a type in publish order; and under emit
\* calls alone (the subscriptions fixed before the first publish) every subscription
\* has been invoked with a prefix of the type's published payloads, each once, and
\* with all of them once the queue is drained.
ThmC1 ==
    /\ \A h \in Handlers, t \in Types :
          \A i, j \in 1..Len(ObservedBy(h, t)) :
              i < j => ObservedBy(h, t)[i] <= ObservedBy(h, t)[j]
    /\ stable =>
          \A t \in DOMAIN listeners : \A i \in 1..Len(listeners[t]) :
              /\ IsPrefix(Payloads(SlotLog(t, i)), PublishedOf(t))
              /\ \A k \in 1..Len(SlotLog(t, i)) : SlotLog(t, i)[k].h = listeners[t][i]
              /\ Drained => Payloads(SlotLog(t, i)) = PublishedOf(t)

\* payloads 1, 2 emitted on "ping" with h1 and hx subscribed, both events queued
\* before the first dispatch: each handler has observed <<1, 2>>
WitC1 ==
    /\ stable /\ Drained
    /\ published = <<"ping", "ping">>
    /\ "ping" \in DOMAIN listeners /\ listeners["ping"] = <<"h1", "hx">>
    /\ ObservedBy("h1", "ping") = <<1, 2>>
    /\ ObservedBy("hx", "ping") = <<1, 2>>

\* C2 (as claimed): when _dispatch has gone through the list, every handler whose
\* subscription to the event's type was not touched during the dispatch has been
\* invoked with the event exactly once per subscription, in subscription order.
CurLog == SelectSeq(delivered, LAMBDA d : d.ev = cur.data)
Untouched(s) == SelectSeq(s, LAMBDA h : h \notin touched)
CexC2 ==
    (bus_pc = "dispatch" /\ idx >= Len(CurList) /\ cur.type \in DOMAIN listeners) =>
        Untouched([k \in 1..Len(CurLog) |-> CurLog[k].h]) = Untouched(listeners[cur.type])

\* C3: after a handler has raised on an event, the subscriptions behind it are still
\* invoked with that event, and every later event is still delivered to every
\* subscription of its type (subscriptions fixed, queue drained).
Invoked(k, i) == \E n \in 1..Len(delivered) : delivered[n].ev = k /\ delivered[n].slot = i
ThmC3 ==
    (stable /\ Drained) =>
        \A n \in 1..Len(delivered) : ~delivered[n].ok =>
            /\ \A i \in (delivered[n].slot + 1)..Len(listeners[delivered[n].type]) :
                  Invoked(delivered[n].ev, i)
            /\ \A k \in (delivered[n].ev + 1)..Len(published) :
                  \A i \in 1..Len(Get(listeners, published[k], <<>>)) : Invoked(k, i)

\* hx raised on event 1 and h1, subscribed behind it, got events 1 and 2
WitC3 ==
    /\ stable /\ Drained
    /\ "ping" \in DOMAIN listeners /\ listeners["ping"] = <<"hx", "h1">>
    /\ Len(published) >= 2 /\ published[1] = "ping" /\ published[2] = "ping"
    /\ \E n \in 1..Len(delivered) : ~delivered[n].ok /\ delivered[n].ev = 1
    /\ IsPrefix(<<1, 2>>, ObservedBy("h1", "ping"))

\* C4 (as claimed): every unsubscribe call removes the first occurrence of the handler
\* if the type's list holds it, changes nothing otherwise, and never raises.
CexC4 ==
    [][\A t \in Types, h \in Handlers : Unsubscribe(t, h) =>
          /\ ~UnsubscribeResult(listeners, t, h).raised
          /\ listeners' = IF t \in DOMAIN listeners /\ IndexOf(listeners[t], h) # 0
                          THEN [listeners EXCEPT ![t] = ListRemove(listeners[t], h)]
                          ELSE listeners]_vars

\* C5: once stop() has cleared the flag of a running loop, the loop exits; and a
\* loop test (after a timeout or after a dispatch) that finds the flag cleared exits
\* and leaves the queue as it is.
ThmC5 ==
    /\ (bus_pc \in {"get", "dispatch", "handler"} /\ ~bus_running) ~> (bus_pc = "done")
    /\ [][(~bus_running /\ (BusTimeout \/ DispatchEnd)) =>
              (bus_pc' = "done" /\ event_queue' = event_queue)]_vars

\* the loop has exited on stop() with an event still queued
WitC5 == bus_pc = "done" /\ ~bus_running /\ event_queue # <<>> /\ delivered # <<>>

(***************************************************************************)
(* Properties of the CognitiveCore                                          *)
(***************************************************************************)
\* C6 (as claimed): the state only moves idle -> running -> stopped (a run() that
\* starts and fails within one step passes through running), and a core that has
\* reached stopped stays stopped, whatever is called on it.
CexC6 ==
    [][/\ core_state' # core_state =>
              <<core_state, core_state'>> \in
                  {<<"idle", "running">>, <<"running", "stopped">>, <<"idle", "stopped">>}
       /\ core_state = "stopped" => core_state' = "stopped"]_vars

\* C7 (as claimed): once stop() has been called on a core whose run() task exists,
\* at whatever point after the task's creation, the next loop test of run() starts no
\* cycle: run() leaves through its finally clause.
CexC7 ==
    [][(stop_requested /\ (RunStart \/ RunWake)) =>
           (run_pc' = "done" /\ core_state' = "stopped")]_vars

\* C8 (as claimed): a cycle in which the selected rule's action raised publishes no
\* action, and does not end run() with an exception.
ActionEvents(es) == SelectSeq(es, LAMBDA e : e.type = "action_requested")
CexC8 ==
    (cycle.thought /\ IsNone(cycle.decision)) =>
        (ActionEvents(cycle.emits) = <<>> /\ run_pc # "failed")

\* C9 (as claimed): the perception log never holds more than 100 entries.
CexC9 == Len(perceptions) <= PerceptionLimit

\* C10: a cycle that has ended has published an "action_requested" event, carrying
\* the decision, and stored an "action" memory entry exactly if think() produced a
\* decision whose action is not "observe"; it has published at most one.
CycleOver == cycle.done \/ (cycle.thought /\ IsNone(cycle.decision))
ThmC10 ==
    CycleOver =>
        LET acts == ActionEvents(cycle.emits)
            decided == cycle.thought /\ ~IsNone(cycle.decision)
                       /\ cycle.decision.action # "observe"
        IN /\ Len(acts) <= 1
           /\ (Len(acts) = 1) <=> decided
           /\ (cycle.stores = <<"action">>) <=> decided
           /\ Len(acts) = 1 => acts[1].data = cycle.decision.action

\* a cycle decided "move" and its event is in the queue; an earlier perception event
\* is what think() reasoned about
WitC10 ==
    /\ cycle.done /\ cycle.decision.action = "move"
    /\ ActionEvents(cycle.emits) = <<Event("action_requested", "move")>>
    /\ ActionEvents(event_queue) # <<>>
    /\ perceptions # <<>>

(***************************************************************************)
(* Properties of perceive() and think()                                     *)
(***************************************************************************)
\* the perceive() calls that wait in memory.store
InFlight == (IF handler_wait # 0 THEN 1 ELSE 0) + (IF direct_wait # 0 THEN 1 ELSE 0)

\* C11: every perceive() call, direct or made by _on_perception for a dispatched
\* sensor event, appends exactly one perception to the log and makes exactly one
\* memory.store call when it starts, and has published exactly one
\* "perception_received" event when it ends: with clock calls started, the log
\* is <<1, ..., clock>>, clock entries were stored, and one event was published per
\* call that is not waiting in memory.store.
ThmC11 ==
    /\ [](/\ perceptions = [k \in 1..clock |-> k]
          /\ perceived.stores = clock
          /\ perceived.events = clock - InFlight)
    /\ [][(OnPerception \/ Perceive) =>
             /\ perceptions' = Append(perceptions, clock')
             /\ perceived'.stores = perceived.stores + 1
             /\ perceived'.events \in {perceived.events, perceived.events + 1}]_vars
    /\ [][(OnPerceptionResume \/ PerceiveResume) =>
             /\ perceptions' = perceptions
             /\ perceived'.stores = perceived.stores
             /\ perceived'.events = perceived.events + 1]_vars

\* two direct calls and two sensor events handled, all four calls over
WitC11 ==
    /\ Len(published) = 2 /\ clock = 4 /\ InFlight = 0
    /\ perceived = [stores |-> 4, events |-> 4]
    /\ bus_pc = "get" /\ event_queue = <<>>

\* the cognitive_cycle calls that a step makes
CycleStep == RunStart \/ (RunWake /\ core_running)

ThoughtEvents(es) == SelectSeq(es, LAMBDA e : e.type = "thought_completed")

\* C12: think() returns absent exactly when the perception log is empty, and then
\* publishes nothing and calls neither the memory nor the engine; on a non-empty log
\* it returns a thought with the engine's decision and publishes exactly one
\* "thought_completed" event.  Stated of think() on every log the core reaches and
\* whichever rule conditions hold, and of what each cycle does with its result.
ThmC12 ==
    /\ [](\A S \in SUBSET (1..Len(rules)) :
            LET t == Think(perceptions, S)
            IN /\ t.absent <=> (perceptions = <<>>)
               /\ t.absent => (t.emits = <<>> /\ t.calls = <<>>)
               /\ ~t.absent =>
                     /\ t.decision = Reason(rules, adaptive_weights, Len(perceptions), S)
                     /\ Len(t.emits) = 1 /\ t.emits[1].type = "thought_completed"
                     /\ t.calls = <<"memory.recall", "reasoning.reason">>)
    /\ [][CycleStep =>
             /\ cycle'.thought <=> (perceptions # <<>>)
             /\ Len(ThoughtEvents(cycle'.emits)) = (IF perceptions # <<>> THEN 1 ELSE 0)
             /\ perceptions = <<>> => cycle'.emits = <<>>]_vars

\* a cycle has thought about a non-empty log, and its one event is in the queue
WitC12 ==
    /\ cycle.thought /\ cycle.done /\ perceptions # <<>>
    /\ Len(ThoughtEvents(cycle.emits)) = 1
    /\ ThoughtEvents(event_queue) # <<>>

(***************************************************************************)
(* Properties of the ReasoningEngine                                        *)
(***************************************************************************)
\* the weight of the i-th rule, and its priority x weight
WeightOf(i) == Get(adaptive_weights, rules[i].name, WeightOne)
Product(i) == rules[i].priority * WeightOf(i)

\* C13: when the conditions of one or more rules hold, reason() returns the decision
\* of the applicable rule with the greatest priority x weight, the earliest in the
\* rule list among those of equal product; a sole applicable rule supplies the
\* decision, and rule A (priority 10, weight 1.0) wins over rule B (5, 1.0).
ThmC13 ==
    (reasoned.called /\ reasoned.S # {}) =>
        \E i \in reasoned.S :
            /\ \A j \in reasoned.S : Product(j) <= Product(i)
            /\ \A j \in reasoned.S : j < i => Product(j) < Product(i)
            /\ reasoned.decision = Execute(rules[i])

\* rule a (priority 10) has been adapted down to weight 0.4 and rule b (priority 5,
\* weight 1.0) is applicable beside it: b's decision is returned
WitC13 ==
    /\ reasoned.called /\ reasoned.S = {1, 2}
    /\ Len(rules) = 2
    /\ rules[1].name = "a" /\ rules[1].priority = 10
    /\ rules[2].name = "b" /\ rules[2].priority = 5
    /\ WeightOf(1) = 400 /\ WeightOf(2) = WeightOne
    /\ reasoned.decision.action = "do_b"

\* C14: when no rule is applicable, reason() returns the default decision fixed by
\* the number n of perceptions: "process" (0.6) for n > 10, "observe" (0.5) for
\* 0 < n <= 10, "wait" (0.4) for n = 0.
ThmC14 ==
    (reasoned.called /\ reasoned.S = {}) =>
        /\ reasoned.n > 10 => reasoned.decision = [action |-> "process", confidence |-> 6]
        /\ (0 < reasoned.n /\ reasoned.n <= 10) =>
              reasoned.decision = [action |-> "observe", confidence |-> 5]
        /\ reasoned.n = 0 => reasoned.decision = [action |-> "wait", confidence |-> 4]

\* an engine with two rules, neither applicable, asked about ten perceptions
WitC14 ==
    /\ reasoned.called /\ reasoned.S = {} /\ reasoned.n = 10
    /\ Len(rules) = 2
    /\ reasoned.decision.action = "observe"

\* C15 (as claimed): adapt strictly increases the weight for every score above 0.5 and
\* strictly decreases it for every score below 0.5, from every weight a rule reaches.
CexC15 ==
    \A name \in DOMAIN adaptive_weights, score \in Scores :
        LET w == adaptive_weights[name]
        IN /\ score > ScoreMid => Adapted(w, score) > w
           /\ score < ScoreMid => Adapted(w, score) < w

\* C15 (amended): from every weight a rule reaches, adapt leaves a weight within
\* [0.1, 2.0]; for a score above 0.5 it never decreases the weight and strictly
\* increases a weight below 2.0; for a score below 0.5 it never increases the weight
\* and strictly decreases a weight above 0.1.
ThmC15 ==
    \A name \in DOMAIN adaptive_weights, score \in Scores :
        LET w == adaptive_weights[name]
            w2 == Adapted(w, score)
        IN /\ WeightMin <= w2 /\ w2 <= WeightMax
           /\ score > ScoreMid => (w2 >= w /\ (w < WeightMax => w2 > w))
           /\ score < ScoreMid => (w2 <= w /\ (w > WeightMin => w2 < w))

\* rule a has been adapted up to the weight 2.0, where a good score changes nothing
WitC15 ==
    /\ "a" \in DOMAIN adaptive_weights
    /\ adaptive_weights["a"] = WeightMax
    /\ Adapted(adaptive_weights["a"], 10) = adaptive_weights["a"]

\* C16: after any add_rule, remove_rule, adapt and reason calls, the weight of every
\* registered rule, and every weight the engine holds, lies in [0.1, 2.0].
ThmC16 ==
    /\ \A i \in 1..Len(rules) : WeightMin <= WeightOf(i) /\ WeightOf(i) <= WeightMax
    /\ \A name \in DOMAIN adaptive_weights :
          WeightMin <= adaptive_weights[name] /\ adaptive_weights[name] <= WeightMax

\* two rules named a, adapted down to the weight 0.1, and reason() called on them
WitC16 ==
    /\ Len(rules) = 2 /\ rules[1].name = "a" /\ rules[2].name = "a"
    /\ WeightOf(1) = WeightMin /\ WeightOf(2) = WeightMin
    /\ reasoned.called

\* C17: after any add_rule and remove_rule calls the rule list is sorted by descending
\* priority, and rules of equal priority are in the order in which they were added.
ThmC17 ==
    \A i, j \in 1..Len(rules) :
        i < j =>
            /\ rules[i].priority >= rules[j].priority
            /\ rules[i].priority = rules[j].priority => rules[i].id < rules[j].id

\* two rules of priority 5 were added, then one of priority 10, and the first removed
\* and added again: it is the last of the list
WitC17 ==
    /\ Len(rules) = 3 /\ added = 3
    /\ rules[1].priority = 10 /\ rules[1].id = 3
    /\ rules[2].priority = 5 /\ rules[2].id = 1
    /\ rules[3].priority = 5 /\ rules[3].id = 2

(***************************************************************************)
(* Properties of the MemoryModule                                           *)
(***************************************************************************)
Min(a, b) == IF a <= b THEN a ELSE b

\* the store() calls since the latest clear(), or since construction
StoredSinceClear == stores - cleared_at

\* C18: the short-term buffer never holds more than its capacity, and after n store()
\* calls (counted from the latest clear(), if there was one) it holds exactly the
\* last min(n, capacity) stored entries, in store order.
ThmC18 ==
    LET n == Min(StoredSinceClear, max_short_term)
    IN /\ Len(short_term) <= max_short_term
       /\ Len(short_term) = n
       /\ \A i \in 1..n :
             /\ short_term[i].data = stores - n + i
             /\ short_term[i].type \in MemoryTypes

\* capacity 10 and the stores 1..11, nothing forgotten or cleared: the buffer holds
\* the entries 2..11
WitC18 ==
    /\ max_short_term = 10 /\ stores = 11 /\ maintained = 0
    /\ [i \in 1..Len(short_term) |-> short_term[i].data] = [i \in 1..10 |-> i + 1]

\* C19: in the state a store(type, data) call leaves, whatever the state before it,
\* recall(type) returns a result that is not None and not empty and whose last
\* element is the entry just stored.
ThmC19 ==
    last # NoEntry =>
        LET r == Recall(last.type, RecallLimit)
        IN /\ ~r.none
           /\ r.items # <<>>
           /\ r.items[Len(r.items)] = last
           /\ last.data = stores

\* capacity 3 and the stores x, y, x, y: recall("y") returns the entries 2 and 4
WitC19 ==
    /\ max_short_term = 3 /\ stores = 4
    /\ last = MemoryEntry("y", 4, "json")
    /\ Recall("y", RecallLimit).items = <<MemoryEntry("y", 2, "json"), last>>
    /\ Len(short_term) = 3

\* C20 (as claimed): the k-th store() call since construction calls persist() exactly
\* when k is a multiple of 10, whatever the capacity and the calls before it.
CexC20 == stores > 0 => (persisted <=> stores % PersistEvery = 0)


\* the queries of the recall calls looked at: the stored types, the special query, and
\* a type nothing is stored under
Queries == MemoryTypes \cup {"recent_context", "unknown"}
\* the limits of the recall calls looked at
Limits == {0, 1, RecallLimit}

\* a is the end of b
IsSuffix(a, b) == Len(a) <= Len(b) /\ a = SubSeq(b, Len(b) - Len(a) + 1, Len(b))

Range(s) == {s[i] : i \in 1..Len(s)}

\* C21: recall(query, limit) answers from the short-term entries of type query when
\* there are any; else from the long-term list of query when the long-term memory has
\* one; else, for "recent_context", from the end of the short-term buffer, and with
\* None when the buffer is empty; else with None.  (The model's recall has no raise.)
ThmC21 ==
    \A query \in Queries, limit \in Limits :
        LET r == Recall(query, limit)
            inShort == \E i \in 1..Len(short_term) : short_term[i].type = query
        IN IF inShort
           THEN /\ ~r.none /\ r.items # <<>>
                /\ \A j \in 1..Len(r.items) :
                       r.items[j].type = query /\ r.items[j] \in Range(short_term)
           ELSE IF query \in DOMAIN long_term
           THEN ~r.none /\ IsSuffix(r.items, long_term[query])
           ELSE IF query = "recent_context" /\ short_term # <<>>
           THEN ~r.none /\ r.items # <<>> /\ IsSuffix(r.items, short_term)
           ELSE r.none

\* capacity 3 and the stores x, y, y, y: the short-term buffer has lost the x entry,
\* recall("x") answers from the long-term list, recall("y") from the buffer,
\* recall("recent_context") with the buffer's end, recall("unknown") with None
WitC21 ==
    /\ max_short_term = 3 /\ stores = 4 /\ maintained = 0
    /\ \A i \in 1..Len(short_term) : short_term[i].type = "y"
    /\ Recall("x", RecallLimit).items = <<MemoryEntry("x", 1, "json")>>
    /\ Len(Recall("y", 1).items) = 1
    /\ Recall("recent_context", RecallLimit).items = short_term
    /\ Recall("unknown", RecallLimit).none

\* C22: forget(type, days) takes from the long-term list of the type exactly the
\* entries that are not newer than the cutoff (now - days), keeps the others in their
\* order, and returns the number of entries it took; forget(type, 0) takes every
\* entry of the type stored before the call.
ThmC22 ==
    [][\A t \in MemoryTypes, days \in ForgetDays, idle \in IdleDays :
          Forget(t, days, idle) =>
              LET before == Get(long_term, t, <<>>)
                  after == Get(long_term', t, <<>>)
                  cutoff == (stores + idle) - days
              IN /\ IsSuffix(after, before)
                 /\ \A i \in 1..Len(before) :
                        (before[i] \in Range(after)) <=> (before[i].data > cutoff)
                 /\ forgot'.count = Len(before) - Len(after)
                 /\ days = 0 => (after = <<>> /\ forgot'.count = Len(before))
                 /\ DOMAIN long_term' = DOMAIN long_term]_vars

\* forget("x", 0) has just taken three entries, all that the long-term memory had
\* under x; the entries of y and the short-term buffer are as they were
WitC22 ==
    /\ forgot = [called |-> TRUE, type |-> "x", days |-> 0, count |-> 3]
    /\ long_term["x"] = <<>>
    /\ "y" \in DOMAIN long_term /\ long_term["y"] # <<>>
    /\ \E i \in 1..Len(short_term) : short_term[i].type = "x"

\* the entries of a long-term map
EntriesOf(lt) == UNION {Range(lt[t]) : t \in DOMAIN lt}

\* C23 (as claimed): a second MemoryModule constructed on the file after persist() has
\* the long-term map and the index that the first had when persist() was called.
CexC23 ==
    (fresh.made /\ saved.called) =>
        (fresh.long_term = saved.long_term /\ fresh.index = saved.index)

\* C23 (amended): the same, for a memory whose entries hold data that json.dump can
\* write and json.load reads back as it was.
ThmC23 ==
    (/\ fresh.made /\ saved.called
     /\ \A e \in EntriesOf(saved.long_term) : e.shape \in {"json", "list"})
    => (fresh.long_term = saved.long_term /\ fresh.index = saved.index)

\* persist() on a memory with entries of two types, and a second MemoryModule
\* constructed on the file: it has the three entries and their index
WitC23 ==
    /\ fresh.made /\ saved.called
    /\ Cardinality(EntriesOf(saved.long_term)) = 3
    /\ \A e \in EntriesOf(saved.long_term) : e.shape = "json"
    /\ DOMAIN fresh.long_term = {"x", "y"}
    /\ fresh.long_term = long_term
    /\ fresh.index = index_by_type
    /\ max_short_term = 3

\* C24: whatever the tasks that call store() and wherever they wait, the short-term
\* buffer, the long-term map and the index are what the store() calls made so far
\* leave when they run one after another: the buffer holds the last min(n, capacity)
\* entries, every entry is once in the list of its type, in call order, and the index
\* of a type lists the positions of its list.
ThmC24 ==
    LET n == Min(stores, max_short_term)
    IN /\ Len(short_term) = n
       /\ \A i \in 1..n :
             /\ short_term[i].data = stores - n + i
             /\ short_term[i] \in Range(long_term[short_term[i].type])
       /\ Cardinality(EntriesOf(long_term)) = stores
       /\ {e.data : e \in EntriesOf(long_term)} = 1..stores
       /\ \A t \in DOMAIN long_term :
             /\ \A i \in 1..Len(long_term[t]) : long_term[t][i].type = t
             /\ \A i \in 1..(Len(long_term[t]) - 1) :
                    long_term[t][i].data < long_term[t][i + 1].data
       /\ DOMAIN index_by_type = DOMAIN long_term
       /\ \A t \in DOMAIN long_term :
             index_by_type[t] = [i \in 1..Len(long_term[t]) |-> i - 1]

\* capacity 10: the task t1 made the tenth store() call and waits in persist(), whose
\* thread has written the long-term map, and the task t2 has made the eleventh call
\* meanwhile
WitC24 ==
    /\ max_short_term = 10 /\ stores = 11
    /\ store_pc["t1"] = "open" /\ store_pc["t2"] = "idle"
    /\ Cardinality(EntriesOf(writing["t1"])) = 10
    /\ Cardinality(EntriesOf(long_term)) = 11
    /\ short_term[1].data = 2

\* the run() task is over: it returned, raised, or was cancelled
RunOver == run_pc \in {"done", "failed", "cancelled"}

\* the events of a run() task come in the order start, cycles, stop
RunOrdered ==
    /\ ~run_hist.early /\ ~run_hist.late
    /\ run_hist.stopped <= 1
    /\ run_hist.stopped = 1 => (run_hist.started /\ run_hist.state = "stopped" /\ RunOver)
    /\ run_pc \in {"sleep", "act_store"} => (run_hist.started /\ run_hist.stopped = 0)

\* C25 (as claimed): every run() publishes its start event before the events of its
\* cycles, and exactly one stop event, after its last cycle and in the state
\* "stopped", however it ends: by stop(), by a cycle that raises, or by cancellation.
CexC25 ==
    /\ RunOrdered
    /\ RunOver => run_hist.stopped = 1

\* C25 (amended): the same for every run() that has begun to run; a run() task that is
\* cancelled before its first step publishes nothing.
ThmC25 ==
    /\ RunOrdered
    /\ (RunOver /\ run_hist.started) => run_hist.stopped = 1
    /\ (RunOver /\ ~run_hist.started) => (run_pc = "cancelled" /\ run_hist = NoRun)

\* a run() task was cancelled in act's memory.store, after its cycle had published a
\* thought: the stop event is the last event of the queue, and the state is stopped
WitC25 ==
    /\ run_pc = "cancelled" /\ run_hist.started /\ run_hist.stopped = 1
    /\ cycle.thought /\ ~cycle.done /\ cycle.stores = <<"action">>
    /\ core_state = "stopped"
    /\ event_queue # <<>>
    /\ event_queue[Len(event_queue)].type = "cognitive_core_stopped"

\* a step of the run() task that reaches the clean-up at the end of a cycle
CleanUp == (RunStart \/ RunWake \/ ActResume) /\ run_pc' = "sleep"

\* C26: the clean-up of a cognitive_cycle that finds more than 100 perceptions in the
\* log, those that arrived while the cycle waited in act included, keeps exactly the
\* 50 most recent ones in their order; a clean-up that finds 100 or fewer, and a step
\* of run() that is no clean-up, leave the log as it is.
ThmC26 ==
    [][/\ CleanUp =>
              IF Len(perceptions) > PerceptionLimit
              THEN /\ Len(perceptions') = PerceptionKeep
                   /\ \A i \in 1..PerceptionKeep :
                          perceptions'[i] = perceptions[Len(perceptions) - PerceptionKeep + i]
              ELSE perceptions' = perceptions
       /\ ((RunStart \/ RunWake \/ ActResume) /\ ~CleanUp) => perceptions' = perceptions]_vars

\* a cycle that acted has ended and has cut a log of 102 perceptions to the
\* perceptions 53 to 102
WitC26 ==
    /\ clock = 102 /\ run_pc = "sleep"
    /\ cycle.done /\ cycle.stores = <<"action">>
    /\ perceptions = [i \in 1..PerceptionKeep |-> 52 + i]

\* C29 (as claimed): add_rule gives the new rule the weight 1.0 and leaves the weight of
\* every rule registered before as it was, also when the new rule takes a name that is
\* in use.
CexC29 ==
    [][\A name \in RuleNames, priority \in Priorities :
          AddRule(name, priority) =>
              /\ \E k \in 1..Len(rules') :
                     /\ rules'[k].id = added'
                     /\ Get(adaptive_weights', rules'[k].name, WeightOne) = WeightOne
              /\ \A i \in 1..Len(rules) :
                     Get(adaptive_weights', rules[i].name, WeightOne) = WeightOf(i)]_vars


\* a step is a reason() call that keeps the history
ReasonStep == reasons' = reasons + 1

\* the latest record of the history after the step is the one of the rule at position i
Recorded(i) ==
    LET h == reasoning_history'
    IN /\ h # <<>>
       /\ h[Len(h)].rule_used = rules[i].name
       /\ h[Len(h)].decision = reasoned'.decision
       /\ h[Len(h)].timestamp = reasons'
       /\ IF Len(reasoning_history) < HistoryLimit
          THEN SubSeq(h, 1, Len(h) - 1) = reasoning_history
          ELSE IsSuffix(SubSeq(h, 1, Len(h) - 1), reasoning_history)

\* C27 as stated: every reason() call that selects a rule increments that rule's
\* execution counter by exactly one, leaves every other counter unchanged and appends
\* exactly one record naming the rule and its decision; a call resolved by the default
\* heuristic changes no counter and appends no record.
CexC27 ==
    [][ReasonStep =>
         IF reasoned'.S = {}
         THEN UNCHANGED <<execution_count, reasoning_history>>
         ELSE \E i \in reasoned'.S :
                 /\ Recorded(i)
                 /\ execution_count' =
                        [execution_count EXCEPT ![rules[i].id] = @ + 1]]_vars

\* C27, amended: every reason() call that selects a rule appends exactly one record
\* naming the rule and its decision (None when the rule's action raised) and leaves every
\* other rule's counter unchanged; it increments the selected rule's counter by exactly
\* one when the rule's action returns and leaves it unchanged when the action raises; a
\* call resolved by the default heuristic changes no counter and appends no record.
ThmC27 ==
    [][ReasonStep =>
         IF reasoned'.S = {}
         THEN UNCHANGED <<execution_count, reasoning_history>>
         ELSE \E i \in reasoned'.S :
                 /\ Recorded(i)
                 /\ IF rules[i].act = "raise"
                    THEN /\ execution_count' = execution_count
                         /\ IsNone(reasoned'.decision)
                    ELSE /\ execution_count' =
                                [execution_count EXCEPT ![rules[i].id] = @ + 1]
                         /\ reasoned'.decision.action = rules[i].act]_vars

\* two calls: one selected "avoid", whose action returned, and one selected "faulty",
\* whose action raised
WitC27 ==
    /\ Len(reasoning_history) = 2
    /\ reasoning_history[1].rule_used = "avoid"
    /\ reasoning_history[1].decision.action = "move"
    /\ reasoning_history[2].rule_used = "faulty"
    /\ IsNone(reasoning_history[2].decision)
    /\ execution_count[1] = 1 /\ execution_count[2] = 0 /\ execution_count[3] = 0

\* a condition that raised, taken as one that returned False
AsFalse(o) == IF o = "raise" THEN "false" ELSE o

\* C28: a rule whose condition raises is not applicable: the applicable rules of a
\* reason() call are those whose conditions returned True, whatever the conditions of the
\* rules before them did, and the decision is the one of the same call with False in
\* the place of every condition that raised.
ThmC28 ==
    [][ReasonStep =>
         /\ reasoned'.S = {i \in 1..Len(rules) : conds'[i] = "true"}
         /\ reasoned'.decision =
                Reason(rules, adaptive_weights, reasoned'.n,
                       {i \in 1..Len(rules) : Evaluate(AsFalse(conds'[i]))})]_vars

\* the condition of the first rule raised and the call went on to select the second
WitC28 ==
    /\ reasoned.called
    /\ conds # <<>>
    /\ conds[1] = "raise" /\ conds[2] = "true" /\ conds[3] = "raise"
    /\ reasoned.decision.action = "observe"
    /\ reasoning_history # <<>>
    /\ reasoning_history[Len(reasoning_history)].rule_used = "watch"

\* C30: after every reason() call the history holds at most 1000 records; the call that
\* adds a record to a history of 1000 leaves exactly the 500 most recent of the 1001:
\* the last 499 of the history and, after them, the record of the call.
ThmC30 ==
    [][ReasonStep =>
         /\ Len(reasoning_history') <= HistoryLimit
         /\ (Len(reasoning_history) = HistoryLimit /\ reasoned'.S # {} =>
                /\ Len(reasoning_history') = HistoryKeep
                /\ \A k \in 1..(HistoryKeep - 1) :
                      reasoning_history'[k] =
                          reasoning_history[HistoryLimit - HistoryKeep + 1 + k]
                /\ reasoning_history'[HistoryKeep].timestamp = reasons')]_vars

\* the history after the call that found it full: the records of the calls 502 to 1001
WitC30 ==
    /\ Len(reasoning_history) = HistoryKeep
    /\ reasoning_history[1].timestamp = HistoryLimit - HistoryKeep + 2
    /\ reasoning_history[HistoryKeep].timestamp = HistoryLimit + 1


\* C31: forget(type, days) leaves the short-term buffer as it was, and with it the
\* long-term list of every other type, whatever it takes from the list of the type.
ThmC31 ==
    [][\A t \in MemoryTypes, days \in ForgetDays, idle \in IdleDays :
          Forget(t, days, idle) =>
              /\ short_term' = short_term
              /\ DOMAIN long_term' = DOMAIN long_term
              /\ \A u \in DOMAIN long_term \ {t} : long_term'[u] = long_term[u]]_vars

\* forget("y", 0) has just taken two entries from the long-term list of y; the list of
\* x holds entries as old as these, and the full short-term buffer still holds one of y
WitC31 ==
    /\ forgot = [called |-> TRUE, type |-> "y", days |-> 0, count |-> 2]
    /\ long_term["y"] = <<>>
    /\ "x" \in DOMAIN long_term /\ Len(long_term["x"]) >= 2
    /\ max_short_term = 3 /\ Len(short_term) = 3
    /\ \E i \in 1..Len(short_term) : short_term[i].type = "y"


\* the positions 0 .. n - 1 of a list of n entries, once each and in order
Positions(n) == [i \in 1..n |-> i - 1]

\* C34: in every state of the memory the index agrees with the long-term map: for each
\* type, the index lists exactly the positions 0 .. len(long_term[type]) - 1, once each.
CexC34 ==
    \A t \in DOMAIN long_term \cup DOMAIN index_by_type :
        Range(Get(index_by_type, t, <<>>)) = Range(Positions(Len(Get(long_term, t, <<>>))))
        /\ Len(Get(index_by_type, t, <<>>)) = Len(Get(long_term, t, <<>>))

\* C36: recall(query, limit) returns at most limit entries, for every limit >= 0, from
\* whichever source answers the query.
CexC36 ==
    \A query \in Queries, limit \in Limits :
        ~Recall(query, limit).none => Len(Recall(query, limit).items) <= limit


\* C37: the document that a persist() has written is the long-term map and the index of
\* one instant, in which the index of every type lists the positions of its list, also
\* when store() calls ran while the document was being written.
CexC37 ==
    disk.state = "json" =>
        \A t \in DOMAIN disk.long_term \cup DOMAIN disk.index :
            Get(disk.index, t, <<>>) = Positions(Len(Get(disk.long_term, t, <<>>)))


\* C33: when _dispatch has gone through the list of an event during whose dispatch
\* handlers of the event's type were unsubscribed, every handler that stayed subscribed
\* the whole time has received the event exactly once per subscription.
CexC33 ==
    (bus_pc = "dispatch" /\ idx >= Len(CurList) /\ cur.type \in DOMAIN listeners
        /\ touched # {}) =>
        \A h \in Range(listeners[cur.type]) \ touched :
            Count([k \in 1..Len(CurLog) |-> CurLog[k].h], h) = Count(listeners[cur.type], h)


\* the number of events the dispatch loop has taken from the queue
Taken == Len(published) - Len(event_queue)

\* C38: the events published while no dispatch loop runs stay in the queue, in publish
\* order, until a loop takes them: the queue always holds the published events that no
\* loop has dispatched yet, no step made while the loop is off takes one away, the loop
\* dispatches the events in publish order, and every subscription of the type of a
\* dispatched event has received it once.
ThmC38 ==
    /\ [](/\ Taken >= 0
          /\ event_queue =
                [i \in 1..Len(event_queue) |-> Event(published[Taken + i], Taken + i)]
          /\ Dispatching => cur = Event(published[Taken], Taken)
          /\ \A n \in 1..Len(delivered) : delivered[n].ev <= Taken
          /\ \A k \in 1..Taken : (k < Taken \/ ~Dispatching) =>
                \A i \in 1..Len(listeners[published[k]]) :
                    Cardinality({n \in 1..Len(delivered) :
                                    delivered[n].ev = k /\ delivered[n].slot = i}) = 1
          /\ \A m, n \in 1..Len(delivered) :
                m < n => /\ delivered[m].ev <= delivered[n].ev
                         /\ (delivered[m].ev = delivered[n].ev
                                => delivered[m].slot < delivered[n].slot))
    /\ [][LoopOff => IsPrefix(event_queue, event_queue')]_vars

\* two events were published while the loop was off, the second on a queue that held
\* the first or after the loop had dispatched the first and left; the loop now running
\* has dispatched both, in publish order, once to every handler
WitC38 ==
    /\ published = <<"ping", "ping">>
    /\ bus_pc = "get" /\ event_queue = <<>>
    /\ ObservedBy("h1", "ping") = <<1, 2>>
    /\ ObservedBy("hx", "ping") = <<1, 2>>


\* C39: the steps of the run() task, think() and act() in them, leave the log as it
\* is unless they end a cycle on a log of more than 100 perceptions; every change of the
\* log is one perception appended by perceive() or that cut; so a cycle thinks whenever
\* the log holds a perception, whether the perception is new or not.
ThmC39 ==
    [][/\ ((RunStart \/ RunWake \/ ActResume) /\ Len(perceptions) <= PerceptionLimit)
              => perceptions' = perceptions
       /\ perceptions' # perceptions =>
              \/ Perceive /\ perceptions' = Append(perceptions, clock') /\ clock' = clock + 1
              \/ CleanUp /\ Len(perceptions) > PerceptionLimit
                         /\ IsSuffix(perceptions', perceptions)
       /\ CycleStep => (cycle'.thought <=> perceptions # <<>>)]_vars

\* two cycles of one run() have thought about the same 99 perceptions: none was
\* perceived since run() was created, and both thoughts wait in the queue
WitC39 ==
    /\ clock = PerceptionLimit - 1 /\ Len(perceptions) = clock
    /\ run_pc = "sleep" /\ cycle.thought /\ cycle.done
    /\ Len(ThoughtEvents(event_queue)) = 2


\* the sensors' events in a sequence of events
SensorEvents(es) == SelectSeq(es, LAMBDA e : e.type \in {"perception", "sensor_data"})

\* the event in dispatch is a sensors' event whose perceive() has not begun
PerceivePending ==
    Dispatching /\ cur.type \in {"perception", "sensor_data"}
        /\ (idx = 0 \/ (bus_pc = "handler" /\ handler_wait = 0))

\* C40: perceive() is called for the sensors' events alone, once for each: every event
\* the sensors have published waits in the queue, or is in dispatch with its perceive()
\* still to begin, or has caused exactly one perceive(); every such perceive() that is
\* over has published one "perception_received" event; and no handler runs for an
\* event that the core has published.
ThmC40 ==
    /\ Len(SensorEvents(event_queue)) + (IF PerceivePending THEN 1 ELSE 0) + clock
          = Len(published)
    /\ perceived.stores = clock
    /\ perceived.events = clock - (IF handler_wait # 0 THEN 1 ELSE 0)
    /\ bus_pc = "handler" => (cur.type \in {"perception", "sensor_data"}
                                 /\ callback = "_on_perception")

\* two sensor events have caused two perceive() calls; the two "perception_received"
\* events, and what run() has published, have gone through the bus and caused none
WitC40 ==
    /\ Len(published) = 2 /\ clock = 2 /\ handler_wait = 0
    /\ perceived = [stores |-> 2, events |-> 2]
    /\ bus_pc = "get" /\ event_queue = <<>>
    /\ run_pc = "sleep" /\ cycle.thought


\* C35: every registered rule has a weight entry under its name, so that adapt(name,
\* score), with a score other than 0.5, changes the weight reason() uses for every rule
\* of that name whose weight is away from the bounds 0.1 and 2.0; after any add_rule
\* and remove_rule calls, duplicate names included.
CexC35 ==
    [][\A name \in AdaptNames, score \in Scores :
          (Adapt(name, score) /\ score # ScoreMid) =>
              \A i \in 1..Len(rules) :
                  (rules[i].name = name /\ WeightMin < WeightOf(i) /\ WeightOf(i) < WeightMax)
                      => /\ name \in DOMAIN adaptive_weights
                         /\ Get(adaptive_weights', name, WeightOne) # WeightOf(i)]_vars


\* the "synapse_sync" events in a sequence of events
SyncEvents(es) == SelectSeq(es, LAMBDA e : e.type = "synapse_sync")

\* the deque q2 is the deque q after one append of e, under the bridge's window
Appended(q, q2, e) ==
    /\ Len(q2) = Min(Len(q) + 1, context_window)
    /\ q2[Len(q2)] = e
    /\ IsSuffix(SubSeq(q2, 1, Len(q2) - 1), q)

\* C32: every dispatched "vision_data", "audio_data" or "text_data" event makes the
\* bridge add one entry to the context of the modality and one to the unified context,
\* the oldest entry leaving a full context, record one synchronisation, and publish
\* one "synapse_sync" event.
CexC32 ==
    [][OnModalityData =>
         \E m \in Modalities :
             /\ cur.type = DataType(m)
             /\ Appended(shared_context[m], shared_context'[m], cur.data)
             /\ Appended(shared_context["unified"], shared_context'["unified"],
                         [modality |-> m, data |-> cur.data])
             /\ \A k \in Modalities \ {m} : shared_context'[k] = shared_context[k]
             /\ Len(sync_history') = Len(sync_history) + 1
             /\ Len(SyncEvents(event_queue')) = Len(SyncEvents(event_queue)) + 1]_vars

====
